---- MODULE Spec2Model ----
(***************************************************************************)
(* The generation orchestrator of the bedtime-story application.           *)
(*                                                                         *)
(*  - the story page (StoryPage): its refs, its initialization effect,     *)
(*    generateStory, generateAIImage, processUploadedPhotoImage,           *)
(*    persistStoryCoverImage and handleNewStory, with the browser's        *)
(*    sessionStorage and the page's navigation;                            *)
(*  - the generate-story route handler (POST) with its retry loop.         *)
(*                                                                         *)
(* A StoryPage is a React component: every mount creates a new instance    *)
(* with fresh refs and state, while the promises started by an earlier     *)
(* instance keep running against the refs they closed over.  Instances are *)
(* therefore numbered, and the refs and the state are functions of the     *)
(* instance.                                                               *)
(***************************************************************************)
EXTENDS Integers, Sequences, FiniteSets, TLC

\* ------------------------------------------------------------------ bounds
\* Number of StoryPage instances mounted in one behaviour.
MaxMounts == 2

Inst == 1..MaxMounts

\* null for a value that is an object when present (sessionStorage.getItem of
\* a missing key, a null state holding a story or an image).
NoData == [null |-> TRUE]

\* null for a value that is a string when present.
Null == "null"

\* An image reference: which instance's acquisition produced it, and how.
Image(i, kind) == [by |-> i, kind |-> kind]

\* ------------------------------------------------------------ answer sets
\* The form data handleSubmit stores: the fields the story page branches on.
Answers(includeImages, visualStyle, photoBase64) ==
  [includeImages |-> includeImages, visualStyle |-> visualStyle,
   photoBase64 |-> photoBase64]

AnswerSets ==
  { Answers(TRUE,  <<"Cartoon">>, Null),      \* images, a style, no photo
    Answers(TRUE,  <<"Cartoon">>, "photo"),   \* images, a style, a photo
    Answers(TRUE,  <<>>,          "photo"),   \* images, no style
    Answers(FALSE, <<"Cartoon">>, Null) }     \* no images

\* ---------------------------------------------------------------- state
VARIABLES
  sessionStorage,             \* [storyFormData, storyCoverImage]
  mounted,                    \* the mounted StoryPage instance, 0 on the home page
  mounts,                     \* instances created so far
  clock,                      \* Date.now()
  imageLockedRef,             \* per instance
  generationRequestIdRef,
  imageGenerationStartedRef,
  initializationCompleteRef,
  formData,                   \* useState of the instance
  story,
  generatedImageUrl,
  isUploadedPhoto,
  currentVisualStyle,
  isGeneratingStory,
  isGeneratingImage,
  error,
  storyPc,                    \* position of the instance's generateStory call
  imgPc,                      \* position of its generateAIImage / processUploadedPhotoImage call
  requestId,                  \* the requestId that call captured
  croppedImage,               \* the compositor's output held by processUploadedPhotoImage
  enhancedImage,              \* what enhanceImageWithAI returned to it
  services,                   \* history: the outbound image calls the instance made
  inSession,                  \* history: the instance was mounted in the current session
  restored,                   \* history: the instance restored a persisted cover image
  \* --- the generate-story route handler (POST), one request at a time
  postPc,                     \* "idle", "calling" (awaiting the narrative service), "done"
  body,                       \* the request body
  attempt,                    \* the loop variable
  storyData,
  lastEvaluation,
  response,                   \* the NextResponse returned
  calls,                      \* history: narrative-service calls made for the request
  outstanding,                \* history: narrative-service calls not yet answered
  lastOutcome,                \* history: what the last answered call yielded
  prompt,                     \* the content of the user message of the last call
  received,                   \* history: the stories parsed from the answers, one per attempt
  responseContent,            \* the content of the last answer of the narrative service
  \* --- one call of evaluateStory
  evPc,                       \* "idle", "ready" (arguments given), "done" (returned)
  evStory,                    \* its arguments
  evChildren,
  evTheme,
  evLanguage,
  evLocals,                   \* the values it computed on its way
  evVerdict,                  \* its return value
  \* --- the generate-image route handler (POST), one request at a time
  imagePc,                    \* "idle", "calling" (awaiting the synthesis service), "done"
  imageBody,                  \* the request body
  imagePrompt,                \* the prompt sent to the synthesis service
  imageResponse,              \* the NextResponse returned
  \* --- one call of processUploadedPhoto
  photoPc,                    \* "idle", "loaded" (img.onload is due), "drawn"
  photo,                      \* the decoded source image (img): width and height
  options,                    \* the processing options: width and height
  canvas,                     \* the canvas: width and height
  drawImage,                  \* the arguments of ctx.drawImage
  \* --- the photo upload of the form (Home)
  file,                       \* the file of the last change event of the input
  uploadedPhoto,
  photoPreview,
  uploadError,
  readers,                    \* the files whose FileReader has not finished
  uploads,                    \* history: the change events handled
  submitted                   \* the form data handleSubmit stored: photoBase64

pageVars ==
  <<sessionStorage, mounted, mounts, clock, imageLockedRef,
    generationRequestIdRef, imageGenerationStartedRef, initializationCompleteRef,
    formData, story, generatedImageUrl, isUploadedPhoto, currentVisualStyle,
    isGeneratingStory, isGeneratingImage, error, storyPc, imgPc, requestId,
    croppedImage, enhancedImage, services, inSession, restored>>

postVars ==
  <<postPc, body, attempt, storyData, lastEvaluation, response, calls,
    outstanding, lastOutcome, prompt, received, responseContent>>

evalVars == <<evPc, evStory, evChildren, evTheme, evLanguage, evLocals, evVerdict>>

imageRouteVars == <<imagePc, imageBody, imagePrompt, imageResponse>>

compositorVars == <<photoPc, photo, options, canvas, drawImage>>

uploadVars ==
  <<file, uploadedPhoto, photoPreview, uploadError, readers, uploads, submitted>>

\* The parts run on their own: the image route, the compositor, the upload.
libVars == <<imageRouteVars, compositorVars, uploadVars>>

\* What the story page leaves alone.
serverVars == <<postVars, evalVars, libVars>>

vars == <<pageVars, postVars, evalVars, libVars>>

refVars ==
  <<imageLockedRef, generationRequestIdRef, imageGenerationStartedRef,
    initializationCompleteRef>>

imageStateVars ==
  <<generatedImageUrl, isUploadedPhoto, currentVisualStyle, isGeneratingImage>>

imageTaskVars == <<imgPc, requestId, croppedImage, enhancedImage, services>>

\* The state of the page instances before any mount.
PageFresh ==
  /\ mounted = 0
  /\ mounts = 0
  /\ clock = 0
  /\ imageLockedRef = [i \in Inst |-> FALSE]
  /\ generationRequestIdRef = [i \in Inst |-> 0]
  /\ imageGenerationStartedRef = [i \in Inst |-> FALSE]
  /\ initializationCompleteRef = [i \in Inst |-> FALSE]
  /\ formData = [i \in Inst |-> NoData]
  /\ story = [i \in Inst |-> NoData]
  /\ generatedImageUrl = [i \in Inst |-> NoData]
  /\ isUploadedPhoto = [i \in Inst |-> FALSE]
  /\ currentVisualStyle = [i \in Inst |-> <<>>]
  /\ isGeneratingStory = [i \in Inst |-> TRUE]
  /\ isGeneratingImage = [i \in Inst |-> FALSE]
  /\ error = [i \in Inst |-> Null]
  /\ storyPc = [i \in Inst |-> "idle"]
  /\ imgPc = [i \in Inst |-> "idle"]
  /\ requestId = [i \in Inst |-> 0]
  /\ croppedImage = [i \in Inst |-> NoData]
  /\ enhancedImage = [i \in Inst |-> NoData]
  /\ services = [i \in Inst |-> {}]
  /\ inSession = [i \in Inst |-> FALSE]
  /\ restored = [i \in Inst |-> FALSE]

\* A new tab: nothing is stored.
PageInit ==
  /\ sessionStorage = [storyFormData |-> NoData, storyCoverImage |-> NoData]
  /\ PageFresh

\* -------------------------------------------------------- pure helpers
\* generateStory: hasVisualStyle (an array with an element, or a non-empty string).
HasVisualStyle(data) == Len(data.visualStyle) > 0

\* Faulty variant of ImageStartGuard: the includeImages test is left out.
ImageStartGuardAnyAnswer(i, data) ==
  /\ HasVisualStyle(data)
  /\ ~imageLockedRef[i]
  /\ ~imageGenerationStartedRef[i]

\* generateStory: the condition under which the cover image is started.
ImageStartGuard(i, data) ==
  /\ data.includeImages = TRUE
  /\ HasVisualStyle(data)
  /\ ~imageLockedRef[i]
  /\ ~imageGenerationStartedRef[i]

\* Faulty variant of UsesUploadedPhoto: the photo is never looked at.
UsesUploadedPhotoNever(data) == FALSE

\* generateStory: `if (data.photoBase64)`, a non-empty string.
UsesUploadedPhoto(data) == data.photoBase64 \notin {Null, ""}

\* Faulty variant of StillCurrent: no continuation is ever stale.
StillCurrentAlways(i) == TRUE

\* Faulty variant of StillCurrent: the requestId comparison is left out.
StillCurrentLockOnly(i) == ~imageLockedRef[i]

\* The check every continuation makes before it goes on or writes:
\* its requestId is still the current one and the image is not locked.
StillCurrent(i) ==
  /\ requestId[i] = generationRequestIdRef[i]
  /\ ~imageLockedRef[i]

\* Faulty variant of HandlesError: every failure is handled.
HandlesErrorAlways(i) == TRUE

\* Faulty variant of HandlesError: no failure is handled.
HandlesErrorNever(i) == FALSE

\* Faulty variant of HandlesError: the negation of the lock test is lost.
HandlesErrorWhenLocked(i) ==
  /\ requestId[i] = generationRequestIdRef[i]
  /\ imageLockedRef[i]

\* The catch blocks of generateAIImage / processUploadedPhotoImage handle the
\* error only under the same condition.
HandlesError(i) ==
  /\ requestId[i] = generationRequestIdRef[i]
  /\ ~imageLockedRef[i]

\* persistStoryCoverImage: the store after the call.  setItem may throw
\* (quota); the function catches it and leaves the store as it was.
persistStoryCoverImage(store, imageUrl, uploaded, visualStyle, now, setItemOk) ==
  IF setItemOk
    THEN [store EXCEPT !.storyCoverImage =
            [imageUrl |-> imageUrl, isUploadedPhoto |-> uploaded,
             visualStyle |-> visualStyle, timestamp |-> now]]
    ELSE store

\* enhanceImageWithAI: the enhanced image, or null for every other outcome
\* of the /api/enhance-image call.
EnhanceOutcomes == {"imageUrl", "noImage", "notSuccess", "notOk", "reject"}
enhanceImageWithAI(i, outcome) ==
  IF outcome = "imageUrl" THEN Image(i, "enhanced") ELSE NoData

\* Faulty variant of HasPersistedImage: the stored image is never found.
HasPersistedImageNever(img) == FALSE

\* A 'storyCoverImage' entry is absent (NoData), the record of the object
\* whose JSON text is stored, or [text |-> t] for a stored text t that is
\* not the JSON text of an object.
\* useEffect: `if (storedImageData)`, false for no entry and for the empty
\* string.
IsTruthy(img) == img # NoData /\ img # [text |-> ""]

\* Faulty variant of ParseThrows: nothing stored makes the try block throw.
ParseThrowsNever(img) == FALSE

\* useEffect: the try block throws, in JSON.parse for a text that is not
\* JSON, in imageData.imageUrl for the text "null" (JSON.parse gives null).
ParseThrows(img) ==
  /\ IsTruthy(img)
  /\ "text" \in DOMAIN img
  /\ img.text \notin {"42", "true"}

\* useEffect: the stored cover image exists and has an imageUrl.
HasPersistedImage(img) ==
  /\ IsTruthy(img)
  /\ "imageUrl" \in DOMAIN img
  /\ img.imageUrl # NoData

\* useEffect: the store after the effect has looked at 'storyCoverImage':
\* the catch block removes the entry.
AfterCoverImageCheck(store) ==
  IF ParseThrows(store.storyCoverImage)
    THEN [store EXCEPT !.storyCoverImage = NoData]
    ELSE store

\* --------------------------------------------- StoryPage initialization
\* The body of the useEffect for instance i, reading the store `store`.
\* It sets every variable the effect can write; the caller sets the rest.
InitEffect(i, store) ==
  IF initializationCompleteRef[i]
    THEN \* already initialized: do nothing
      /\ sessionStorage' = store
      /\ mounted' = i
      /\ UNCHANGED <<refVars, formData, generatedImageUrl, isUploadedPhoto,
                     currentVisualStyle, isGeneratingStory, error, storyPc, restored>>
  ELSE IF store.storyFormData = NoData
    THEN \* no form data: router.push('/')
      /\ sessionStorage' = store
      /\ mounted' = 0
      /\ UNCHANGED <<refVars, formData, generatedImageUrl, isUploadedPhoto,
                     currentVisualStyle, isGeneratingStory, error, storyPc, restored>>
  ELSE
    LET data == store.storyFormData
        img  == store.storyCoverImage
    IN
    /\ sessionStorage' = AfterCoverImageCheck(store)
    /\ mounted' = i
    /\ formData' = [formData EXCEPT ![i] = data]
    /\ UNCHANGED generationRequestIdRef
    /\ IF HasPersistedImage(img)
         THEN \* restore the persisted image and lock it
           /\ generatedImageUrl' = [generatedImageUrl EXCEPT ![i] = img.imageUrl]
           /\ isUploadedPhoto' = [isUploadedPhoto EXCEPT ![i] = img.isUploadedPhoto]
           /\ currentVisualStyle' = [currentVisualStyle EXCEPT ![i] = img.visualStyle]
           /\ imageLockedRef' = [imageLockedRef EXCEPT ![i] = TRUE]
           /\ imageGenerationStartedRef' = [imageGenerationStartedRef EXCEPT ![i] = TRUE]
           /\ initializationCompleteRef' = [initializationCompleteRef EXCEPT ![i] = TRUE]
           /\ restored' = [restored EXCEPT ![i] = TRUE]
           /\ UNCHANGED <<isGeneratingStory, error, storyPc>>
         ELSE
           /\ IF ~imageLockedRef[i]
                THEN \* generateStory(data) up to its fetch
                  /\ isGeneratingStory' = [isGeneratingStory EXCEPT ![i] = TRUE]
                  /\ error' = [error EXCEPT ![i] = Null]
                  /\ storyPc' = [storyPc EXCEPT ![i] = "awaitStory"]
                ELSE UNCHANGED <<isGeneratingStory, error, storyPc>>
           /\ initializationCompleteRef' = [initializationCompleteRef EXCEPT ![i] = TRUE]
           /\ UNCHANGED <<generatedImageUrl, isUploadedPhoto, currentVisualStyle,
                          imageLockedRef, imageGenerationStartedRef, restored>>

\* What a mount leaves alone besides what InitEffect writes.
MountFrame ==
  UNCHANGED <<clock, story, isGeneratingImage, imageTaskVars, serverVars>>

\* ------------------------------------------------------- navigation
\* Home page, handleSubmit: store the answers and open the story page,
\* which mounts a new instance and runs its effect.  A submission starts a
\* session.
Submit ==
  /\ mounted = 0
  /\ mounts < MaxMounts
  /\ \E a \in AnswerSets :
       LET i == mounts + 1 IN
       /\ InitEffect(i, [sessionStorage EXCEPT !.storyFormData = a])
       /\ mounts' = i
       /\ inSession' = [j \in Inst |-> j = i]
       /\ MountFrame

\* The story page is opened from the home page without a submission
\* (forward navigation, the address bar).
Visit ==
  /\ mounted = 0
  /\ mounts < MaxMounts
  /\ LET i == mounts + 1 IN
     /\ InitEffect(i, sessionStorage)
     /\ mounts' = i
     /\ inSession' = [inSession EXCEPT ![i] = sessionStorage.storyFormData # NoData]
     /\ MountFrame

\* The story page is mounted again while it is shown: a new instance with
\* fresh refs.  After a client-side remount the promises of the earlier
\* instances keep running; after a browser refresh they are never resumed
\* (no continuation is ever obliged to run).
Remount ==
  /\ mounted # 0
  /\ mounts < MaxMounts
  /\ LET i == mounts + 1 IN
     /\ InitEffect(i, sessionStorage)
     /\ mounts' = i
     /\ inSession' = [inSession EXCEPT ![i] = sessionStorage.storyFormData # NoData]
     /\ MountFrame

\* The story page is left for the home page without "new story" (back).
Leave ==
  /\ mounted # 0
  /\ mounted' = 0
  /\ UNCHANGED <<sessionStorage, mounts, clock, refVars, formData,
                 story, imageStateVars, isGeneratingStory, error, storyPc,
                 imageTaskVars, inSession, restored, serverVars>>

\* The mounted page renders again (a state update, a language switch) and
\* its effect runs again.
Rerender ==
  /\ mounted # 0
  /\ InitEffect(mounted, sessionStorage)
  /\ UNCHANGED <<serverVars, mounts, clock, story, isGeneratingImage, imageTaskVars, inSession>>

\* handleNewStory
handleNewStory ==
  /\ mounted # 0
  /\ sessionStorage' = [storyFormData |-> NoData, storyCoverImage |-> NoData]
  /\ imageLockedRef' = [imageLockedRef EXCEPT ![mounted] = FALSE]
  /\ imageGenerationStartedRef' = [imageGenerationStartedRef EXCEPT ![mounted] = FALSE]
  /\ generationRequestIdRef' = [generationRequestIdRef EXCEPT ![mounted] = 0]
  /\ mounted' = 0
  /\ inSession' = [j \in Inst |-> FALSE]
  /\ UNCHANGED <<mounts, clock, initializationCompleteRef, formData,
                 story, imageStateVars, isGeneratingStory, error, storyPc,
                 imageTaskVars, restored, serverVars>>

\* --------------------------------------------------- generateStory
StoryOutcomes == {"ok", "notOk", "reject"}

\* generateAIImage / processUploadedPhotoImage from their first line to
\* their first await, called by generateStory for instance i.
StartImage(i, data) ==
  IF imageLockedRef[i]
    THEN UNCHANGED <<generationRequestIdRef, imageTaskVars, isGeneratingImage,
                     currentVisualStyle>>
    ELSE
      /\ generationRequestIdRef' =
           [generationRequestIdRef EXCEPT ![i] = generationRequestIdRef[i] + 1]
      /\ requestId' = [requestId EXCEPT ![i] = generationRequestIdRef[i] + 1]
      /\ isGeneratingImage' = [isGeneratingImage EXCEPT ![i] = TRUE]
      /\ UNCHANGED <<croppedImage, enhancedImage>>
      /\ IF UsesUploadedPhoto(data)
           THEN \* processUploadedPhotoImage: await processUploadedPhoto(...)
             /\ currentVisualStyle' = [currentVisualStyle EXCEPT ![i] = data.visualStyle]
             /\ imgPc' = [imgPc EXCEPT ![i] = "awaitCompose"]
             /\ services' = [services EXCEPT ![i] = @ \cup {"compositor"}]
           ELSE \* generateAIImage: await fetch('/api/generate-image')
             /\ UNCHANGED currentVisualStyle
             /\ imgPc' = [imgPc EXCEPT ![i] = "awaitSynth"]
             /\ services' = [services EXCEPT ![i] = @ \cup {"synthesis"}]

\* Faulty variant of ReachesImageStart: the image block runs after the
\* try/catch, whatever the narrative request yielded.
ReachesImageStartAlways(outcome) == TRUE

\* generateStory: a response that is not OK throws and a rejected fetch
\* throws, and the catch block is entered past the image block; only an OK
\* response reaches the image-start guard.
ReachesImageStart(outcome) == outcome = "ok"

\* The continuation of generateStory after its fetch of /api/generate-story.
StoryResponse(i) ==
  /\ storyPc[i] = "awaitStory"
  /\ \E outcome \in StoryOutcomes :
       /\ isGeneratingStory' = [isGeneratingStory EXCEPT ![i] = FALSE]
       /\ IF outcome = "ok"
            THEN
              /\ story' = [story EXCEPT ![i] = [by |-> i]]
              /\ storyPc' = [storyPc EXCEPT ![i] = "done"]
            ELSE \* response not ok, or the fetch rejected: the catch block
              /\ storyPc' = [storyPc EXCEPT ![i] = "failed"]
              /\ UNCHANGED story
       /\ IF ReachesImageStart(outcome) /\ ImageStartGuard(i, formData[i])
            THEN
              /\ imageGenerationStartedRef' =
                   [imageGenerationStartedRef EXCEPT ![i] = TRUE]
              /\ StartImage(i, formData[i])
            ELSE UNCHANGED <<imageGenerationStartedRef, generationRequestIdRef,
                             imageTaskVars, isGeneratingImage, currentVisualStyle>>
       /\ error' =
            IF outcome # "ok" THEN [error EXCEPT ![i] = "Failed to generate story"]
            ELSE IF ImageStartGuard(i, formData[i]) /\ ~imageLockedRef[i]
              THEN [error EXCEPT ![i] = Null]
            ELSE error
       /\ UNCHANGED <<generatedImageUrl, isUploadedPhoto>>
  /\ UNCHANGED <<sessionStorage, mounted, mounts, clock, imageLockedRef,
                 initializationCompleteRef, formData, inSession, restored, serverVars>>

\* ------------------------------------------- finalization and failure
\* The last lines of both image functions: final check, set the image,
\* lock, persist.
Finalize(i, finalImage, uploaded, setItemOk) ==
  IF ~StillCurrent(i)
    THEN \* image locked or request outdated: return
      /\ imgPc' = [imgPc EXCEPT ![i] = "discarded"]
      /\ UNCHANGED <<sessionStorage, clock, imageLockedRef, imageStateVars>>
    ELSE
      /\ isUploadedPhoto' = [isUploadedPhoto EXCEPT ![i] = uploaded]
      /\ generatedImageUrl' = [generatedImageUrl EXCEPT ![i] = finalImage]
      /\ currentVisualStyle' =
           IF uploaded /\ ~HasVisualStyle(formData[i]) THEN currentVisualStyle
           ELSE [currentVisualStyle EXCEPT ![i] = formData[i].visualStyle]
      /\ imageLockedRef' = [imageLockedRef EXCEPT ![i] = TRUE]
      /\ clock' = clock + 1
      /\ sessionStorage' =
           persistStoryCoverImage(sessionStorage, finalImage, uploaded,
                                  formData[i].visualStyle, clock + 1, setItemOk)
      /\ isGeneratingImage' = [isGeneratingImage EXCEPT ![i] = FALSE]
      /\ imgPc' = [imgPc EXCEPT ![i] = "done"]

\* The catch block of both image functions.
ImageFailed(i, message) ==
  /\ imgPc' = [imgPc EXCEPT ![i] = "failed"]
  /\ IF HandlesError(i)
       THEN
         /\ error' = [error EXCEPT ![i] = message]
         /\ isGeneratingImage' = [isGeneratingImage EXCEPT ![i] = FALSE]
         /\ imageGenerationStartedRef' =
              [imageGenerationStartedRef EXCEPT ![i] = FALSE]
       ELSE UNCHANGED <<error, isGeneratingImage, imageGenerationStartedRef>>
  /\ UNCHANGED <<sessionStorage, clock, imageLockedRef, generatedImageUrl,
                 isUploadedPhoto, currentVisualStyle>>

\* ------------------------------------------------- generateAIImage
SynthOutcomes == {"imageUrl", "imageBase64", "noImage", "notOk", "reject"}

\* The continuation of generateAIImage after its fetch of /api/generate-image.
SynthResponse(i) ==
  /\ imgPc[i] = "awaitSynth"
  /\ \E outcome \in SynthOutcomes, setItemOk \in BOOLEAN :
       IF outcome = "reject"
         THEN ImageFailed(i, "Failed to generate image")
       ELSE IF ~StillCurrent(i)
         THEN \* late response, or locked meanwhile: return
           /\ imgPc' = [imgPc EXCEPT ![i] = "discarded"]
           /\ UNCHANGED <<sessionStorage, clock, imageLockedRef, imageStateVars,
                          error, imageGenerationStartedRef>>
       ELSE IF outcome \in {"notOk", "noImage"}
         THEN ImageFailed(i, "Failed to generate image")
       ELSE
         /\ Finalize(i, Image(i, outcome), FALSE, setItemOk)
         /\ UNCHANGED <<error, imageGenerationStartedRef>>
  /\ UNCHANGED <<mounted, mounts, generationRequestIdRef,
                 initializationCompleteRef, formData, story, isGeneratingStory,
                 storyPc, requestId, croppedImage, enhancedImage, services,
                 inSession, restored, serverVars>>

\* --------------------------------------- processUploadedPhotoImage
ComposeOutcomes == {"ok", "reject"}

\* The continuation after processUploadedPhoto (the compositor).
ComposeDone(i) ==
  /\ imgPc[i] = "awaitCompose"
  /\ \E outcome \in ComposeOutcomes :
       IF outcome = "reject"
         THEN ImageFailed(i, "Failed to process photo")
              /\ UNCHANGED <<croppedImage, services>>
       ELSE IF ~StillCurrent(i)
         THEN
           /\ imgPc' = [imgPc EXCEPT ![i] = "discarded"]
           /\ UNCHANGED <<croppedImage, services, error, isGeneratingImage,
                          imageGenerationStartedRef>>
       ELSE \* enhanceImageWithAI: await fetch('/api/enhance-image')
         /\ croppedImage' = [croppedImage EXCEPT ![i] = Image(i, "composite")]
         /\ imgPc' = [imgPc EXCEPT ![i] = "awaitEnhance"]
         /\ services' = [services EXCEPT ![i] = @ \cup {"refinement"}]
         /\ UNCHANGED <<error, isGeneratingImage, imageGenerationStartedRef>>
  /\ UNCHANGED <<sessionStorage, mounted, mounts, clock, imageLockedRef,
                 generationRequestIdRef, initializationCompleteRef, formData, story,
                 generatedImageUrl, isUploadedPhoto, currentVisualStyle,
                 isGeneratingStory, storyPc, requestId, enhancedImage,
                 inSession, restored, serverVars>>

\* The continuation after enhanceImageWithAI, to the end of the function.
EnhanceDone(i) ==
  /\ imgPc[i] = "awaitEnhance"
  /\ \E outcome \in EnhanceOutcomes, setItemOk \in BOOLEAN :
       LET enhanced == enhanceImageWithAI(i, outcome)
           finalImage ==
             IF ~StillCurrent(i) THEN croppedImage[i]
             ELSE IF enhanced # NoData THEN enhanced
             ELSE croppedImage[i]
       IN /\ enhancedImage' = [enhancedImage EXCEPT ![i] = enhanced]
          /\ Finalize(i, finalImage, TRUE, setItemOk)
  /\ UNCHANGED <<mounted, mounts, generationRequestIdRef,
                 imageGenerationStartedRef, initializationCompleteRef, formData,
                 story, isGeneratingStory, error, storyPc, requestId, croppedImage,
                 services, inSession, restored, serverVars>>

PageNext ==
  \/ Submit
  \/ Visit
  \/ Remount
  \/ Leave
  \/ Rerender
  \/ handleNewStory
  \/ \E i \in Inst : StoryResponse(i)
  \/ \E i \in Inst : SynthResponse(i)
  \/ \E i \in Inst : ComposeDone(i)
  \/ \E i \in Inst : EnhanceDone(i)

\* ======================================================================
\* The generate-story route handler
\* ======================================================================
\* Faulty variant of MAX_RETRIES: one attempt more.
MAX_RETRIES_OneMore == 3 + 1

MAX_RETRIES == 3

\* The form holds up to three children.
MaxChildren == 3

\* The names typed into the form.  A name is put into the evaluator's
\* regular expressions as it is, so "Jo." is the pattern j, o, any character.
ChildNames == <<"Mia", "Leo", "Jo.">>
Names == { ChildNames[k] : k \in 1..MaxChildren }

\* The children lists of the requests: 0..MaxChildren children with the
\* names in order.
ChildrenLists == { SubSeq(ChildNames, 1, n) : n \in 0..MaxChildren }

\* The theme passed to evaluateStory: enjoyedCharacters then customCharacters.
Themes == { <<>>, <<"Dragons">>, <<"Robots">> }

\* A request body: with children, without the children field, or an
\* undecodable one (request.json() throws).
BadBody == [invalid |-> TRUE]
Bodies ==
  { BadBody }
  \cup [characters : Themes, language : {"en"}]
  \cup [children : ChildrenLists, characters : Themes, language : {"en"}]
HasChildren(b) == "children" \in DOMAIN b

\* ------------------------------------------------------------- Narratives
\* StoryResponse: a title and sections of headline and body.
Section(headline, text) == [headline |-> headline, body |-> text]

Titles == { "Mia and the Dragon", "A Bedtime Story" }

SectionPool ==
  << Section("Mia went out", "Mia found Joe and Leo."),
     Section("Friends", "Leo and Mia saw Leo."),
     Section("A lesson", "The moral was wisdom."),
     Section("Leo's story", "Leo was brave and learns a lesson with Jo. the bird."),
     Section("Une histoire de Mia", "Mia a vu le dragon.") >>

\* Number of sections of a Narrative.
MaxSections == 1

SectionLists ==
  UNION { [1..n -> {SectionPool[k] : k \in 1..Len(SectionPool)}] : n \in 0..MaxSections }

Narratives == [title : Titles, sections : SectionLists]

\* The stories the narrative service answers with in the retry loop.
ServiceStories == { n \in Narratives : Len(n.sections) <= 1 }

\* ------------------------------------------------------- strings, RegExp
UpperCaseLetters == "ABCDEFGHIJKLMNOPQRSTUVWXYZ"
LowerCaseLetters == "abcdefghijklmnopqrstuvwxyz"
DecimalDigits == "0123456789"

CharAt(s, p) == SubSeq(s, p, p)
CharsOf(s) == { CharAt(s, p) : p \in 1..Len(s) }
UpperCaseChars == CharsOf(UpperCaseLetters)

\* String.prototype.toLowerCase, on the characters of the model's texts.
LowerChar(c) ==
  IF c \in UpperCaseChars
    THEN CharAt(LowerCaseLetters,
                CHOOSE k \in 1..Len(UpperCaseLetters) : CharAt(UpperCaseLetters, k) = c)
    ELSE c
RECURSIVE toLowerCase(_)
toLowerCase(s) ==
  IF s = "" THEN "" ELSE LowerChar(Head(s)) \o toLowerCase(Tail(s))

\* \w of a RegExp without the u flag: ASCII letters, digits and underscore.
WordChars ==
  UpperCaseChars \cup CharsOf(LowerCaseLetters) \cup CharsOf(DecimalDigits) \cup {"_"}
\* \s
WhiteSpace == {" ", "\t", "\n"}

\* \b at position p: between the characters p-1 and p of text.
WordBoundary(text, p) ==
  LET before == p > 1 /\ CharAt(text, p - 1) \in WordChars
      after  == p <= Len(text) /\ CharAt(text, p) \in WordChars
  IN before # after

\* String.prototype.includes
Includes(text, s) ==
  \E p \in 1..(Len(text) - Len(s) + 1) : SubSeq(text, p, p + Len(s) - 1) = s

\* The pieces of the evaluator's patterns.
B == [t |-> "b"]                      \* \b
Ws == [t |-> "s+"]                    \* \s+
Lit(s) == [t |-> "lit", s |-> s]      \* literal text
Src(s) == [t |-> "src", s |-> s]      \* ${name}: pattern source, "." is any character
Alt(ss) == [t |-> "alt", ss |-> ss]   \* (a|b|...), in order

\* The source s matches text at p: "." matches any character but a line
\* terminator, every other character of the model's names matches itself.
SrcMatches(text, p, s) ==
  /\ p + Len(s) - 1 <= Len(text)
  /\ \A k \in 1..Len(s) :
       IF CharAt(s, k) = "." THEN CharAt(text, p + k - 1) # "\n"
       ELSE CharAt(text, p + k - 1) = CharAt(s, k)

LitMatches(text, p, s) ==
  /\ p + Len(s) - 1 <= Len(text)
  /\ SubSeq(text, p, p + Len(s) - 1) = s

\* Length of the run of whitespace at p.
RECURSIVE SpaceRun(_, _)
SpaceRun(text, p) ==
  IF p <= Len(text) /\ CharAt(text, p) \in WhiteSpace
    THEN 1 + SpaceRun(text, p + 1) ELSE 0

\* The position after the match of pattern pat at p, 0 when there is none
\* (a backtracking matcher: greedy \s+, alternatives in order).
RECURSIVE MatchEnd(_, _, _)
MatchEnd(text, p, pat) ==
  IF pat = <<>> THEN p
  ELSE
    LET e == Head(pat)
        rest == Tail(pat)
    IN
    CASE e.t = "b" ->
           IF WordBoundary(text, p) THEN MatchEnd(text, p, rest) ELSE 0
      [] e.t = "lit" ->
           IF LitMatches(text, p, e.s) THEN MatchEnd(text, p + Len(e.s), rest) ELSE 0
      [] e.t = "src" ->
           IF SrcMatches(text, p, e.s) THEN MatchEnd(text, p + Len(e.s), rest) ELSE 0
      [] e.t = "s+" ->
           LET ks == { k \in 1..SpaceRun(text, p) : MatchEnd(text, p + k, rest) # 0 }
           IN IF ks = {} THEN 0
              ELSE MatchEnd(text, p + (CHOOSE k \in ks : \A m \in ks : m <= k), rest)
      [] e.t = "alt" ->
           LET js == { j \in 1..Len(e.ss) :
                         /\ LitMatches(text, p, e.ss[j])
                         /\ MatchEnd(text, p + Len(e.ss[j]), rest) # 0 }
           IN IF js = {} THEN 0
              ELSE LET j == CHOOSE j \in js : \A m \in js : j <= m
                   IN MatchEnd(text, p + Len(e.ss[j]), rest)

\* (text.match(new RegExp(pat, 'g')) || []).length: the matches found from
\* left to right, each search starting where the last match ended.
RECURSIVE MatchCountFrom(_, _, _)
MatchCountFrom(text, p, pat) ==
  IF p > Len(text) + 1 THEN 0
  ELSE LET end == MatchEnd(text, p, pat)
       IN IF end = 0 THEN MatchCountFrom(text, p + 1, pat)
          ELSE 1 + MatchCountFrom(text, IF end = p THEN p + 1 ELSE end, pat)
MatchCount(text, pat) == MatchCountFrom(text, 1, pat)

\* ------------------------------------------- getThemeCompanionKeywords
ThemesWithKeywords == {"Princesses", "Superheroes", "Animals", "Dragons",
                       "Super-héros", "Animaux"}
SuperheroKeywords ==
  <<"superhero", "super-héros", "superheroes", "super-héros", "cape", "cape",
    "hero", "héros", "power", "pouvoir", "super">>
AnimalKeywords ==
  <<"animal", "animaux", "puppy", "chiot", "bunny", "lapin", "bird", "oiseau",
    "dog", "chien", "cat", "chat", "rabbit", "lapin">>
keywords ==
  [th \in ThemesWithKeywords |->
     CASE th = "Princesses" ->
            <<"princess", "princesse", "royal", "royal", "castle", "château",
              "unicorn", "licorne", "fairy", "fée", "crown", "couronne">>
       [] th \in {"Superheroes", "Super-héros"} -> SuperheroKeywords
       [] th \in {"Animals", "Animaux"} -> AnimalKeywords
       [] th = "Dragons" -> <<"dragon", "dragon", "dragons">>]

\* theme[0] of the characters array (undefined for an empty one).
SelectedTheme(theme) == IF Len(theme) > 0 THEN theme[1] ELSE Null
getThemeCompanionKeywords(theme) ==
  IF SelectedTheme(theme) \in ThemesWithKeywords
    THEN keywords[SelectedTheme(theme)] ELSE <<>>
HasCompanionKeywords(theme) == Len(getThemeCompanionKeywords(theme)) > 0

\* ------------------------------------------------------- evaluateStory
RECURSIVE JoinSections(_)
\* story.sections.map(s => `${s.headline} ${s.body}`).join(' ')
JoinSections(sections) ==
  IF sections = <<>> THEN ""
  ELSE Head(sections).headline \o " " \o Head(sections).body
       \o (IF Len(sections) > 1 THEN " " ELSE "")
       \o JoinSections(Tail(sections))

fullStoryText(narrative) ==
  toLowerCase(narrative.title \o " " \o JoinSections(narrative.sections))

\* new RegExp(`\\b${name}\\b`, 'g')
NamePattern(name) == <<B, Src(name), B>>
NameCount(text, name) == MatchCount(text, NamePattern(toLowerCase(name)))

EnglishVerbs ==
  <<"went", "did", "said", "saw", "found", "discovered", "explored", "decided",
    "chose", "helped", "played", "ran", "jumped", "flew", "climbed", "solved",
    "saved", "met", "talked", "asked", "told", "shared", "gave", "took", "made",
    "built", "created">>
FrenchVerbs ==
  <<"est", "était", "sera", "va", "fait", "fait", "dit", "voit", "trouve",
    "découvre", "explore", "décide", "choisit", "aide", "joue", "court",
    "saute", "vole", "grimpe", "résout", "sauve", "rencontre", "parle",
    "demande", "raconte", "partage", "donne", "prend", "crée", "construit",
    "fabrique">>

\* activePatterns for one lowercased name.
activePatterns(name, language) ==
  IF language = "fr"
    THEN << <<B, Src(name), Ws, Alt(FrenchVerbs)>>,
            <<B, Src(name), Ws, Alt(<<"a", "avait", "aura">>), Ws>>,
            <<B, Lit("de"), Ws, Src(name), B>> >>
    ELSE << <<B, Src(name), Ws, Alt(EnglishVerbs)>>,
            <<B, Src(name), Ws, Alt(<<"was", "is", "has", "had", "will">>), Ws>>,
            <<B, Src(name), Lit("'s"), Ws,
              Alt(<<"adventure", "journey", "story", "quest", "mission", "trip",
                    "journey">>)>> >>

RECURSIVE SumCounts(_, _)
\* The matches of a list of patterns, added up.
SumCounts(text, patterns) ==
  IF patterns = <<>> THEN 0
  ELSE MatchCount(text, Head(patterns)) + SumCounts(text, Tail(patterns))

RECURSIVE ActiveChildMentions(_, _, _)
ActiveChildMentions(text, names, language) ==
  IF names = <<>> THEN 0
  ELSE SumCounts(text, activePatterns(toLowerCase(Head(names)), language))
       + ActiveChildMentions(text, Tail(names), language)

RECURSIVE TotalChildMentions(_, _)
TotalChildMentions(text, names) ==
  IF names = <<>> THEN 0
  ELSE NameCount(text, Head(names)) + TotalChildMentions(text, Tail(names))

\* Faulty variant of MinActiveMentions: one active mention is always enough.
MinActiveMentionsAlwaysOne(totalChildMentions) == 1

MinActiveMentions(totalChildMentions) == IF totalChildMentions <= 3 THEN 1 ELSE 2

instructionalPatterns ==
  << <<B, Alt(<<"learned that", "learns that", "learns", "taught", "teaches",
                "lesson", "lessons", "moral", "wisdom", "philosophy">>), B>>,
     <<B, Alt(<<"the story teaches", "this story shows", "this teaches">>), B>>,
     <<B, Alt(<<"should remember", "must remember", "important to remember">>), B>> >>
InstructionalCount(text) == SumCounts(text, instructionalPatterns)

\* Faulty variant of CompanionFound: a companion is always found.
CompanionFoundAlways(text, themeKeywords) == TRUE

\* themeKeywords.some(keyword => fullStoryText.includes(keyword.toLowerCase()))
CompanionFound(text, themeKeywords) ==
  \E k \in 1..Len(themeKeywords) : Includes(text, toLowerCase(themeKeywords[k]))

NameReason(name, language) ==
  (IF language = "fr" THEN "Le nom" ELSE "The name") \o " " \o name \o " "
  \o (IF language = "fr" THEN "n'est pas utilisé dans l'histoire"
      ELSE "is not used in the story")
ProtagonistReason(language) ==
  IF language = "fr"
    THEN "L'enfant n'est pas le protagoniste actif - l'histoire doit montrer l'enfant agissant et participant"
    ELSE "The child is not the active protagonist - the story must show the child acting and participating"
ToneReason(language) ==
  IF language = "fr"
    THEN "Le ton est trop instructif - l'histoire doit être narrative, pas éducative"
    ELSE "The tone is too instructional - the story must be narrative, not educational"
CompanionReason(theme, language) ==
  IF language = "fr"
    THEN "Le compagnon thématique (" \o SelectedTheme(theme)
         \o ") n'est pas présent dans l'histoire"
    ELSE "Theme companion (" \o SelectedTheme(theme) \o ") is not present in the story"

\* Check 2: the children are mentioned and not often enough in active roles.
ProtagonistCheckFails(totalChildMentions, activeChildMentions) ==
  /\ totalChildMentions > 0
  /\ activeChildMentions < MinActiveMentions(totalChildMentions)

\* Faulty variant of Verdict: a single reason is tolerated.
VerdictToleratesOne(reasons) == [valid |-> Len(reasons) <= 1, reasons |-> reasons]

\* The return value: valid when no reason was pushed.
Verdict(reasons) == [valid |-> Len(reasons) = 0, reasons |-> reasons]

\* The values evaluateStory computes from its arguments on its way.
EvalLocals(narrative, childrenData, theme, language) ==
  LET text == fullStoryText(narrative)
      themeKeywords == getThemeCompanionKeywords(theme)
  IN [fullStoryText       |-> text,
      nameCount           |-> [k \in 1..Len(childrenData) |->
                                 NameCount(text, childrenData[k])],
      activeChildMentions |-> ActiveChildMentions(text, childrenData, language),
      totalChildMentions  |-> TotalChildMentions(text, childrenData),
      instructionalCount  |-> InstructionalCount(text),
      themeKeywords       |-> themeKeywords,
      companionFound      |-> CompanionFound(text, themeKeywords)]

RECURSIVE NameReasonsFirstOnly(_, _, _, _)
\* Faulty variant of NameReasons: the loop stops at the first missing name.
NameReasonsFirstOnly(nameCount, k, childrenData, language) ==
  IF k > Len(childrenData) THEN <<>>
  ELSE IF nameCount[k] = 0 THEN <<NameReason(childrenData[k], language)>>
  ELSE NameReasonsFirstOnly(nameCount, k + 1, childrenData, language)

RECURSIVE NameReasons(_, _, _, _)
\* Check 1: one reason for each child whose name is not counted.
NameReasons(nameCount, k, childrenData, language) ==
  IF k > Len(childrenData) THEN <<>>
  ELSE (IF nameCount[k] = 0
          THEN <<NameReason(childrenData[k], language)>> ELSE <<>>)
       \o NameReasons(nameCount, k + 1, childrenData, language)

\* The reasons pushed, in the order of the checks.
Reasons(l, childrenData, theme, language) ==
  NameReasons(l.nameCount, 1, childrenData, language)
  \o (IF ProtagonistCheckFails(l.totalChildMentions, l.activeChildMentions)
        THEN <<ProtagonistReason(language)>> ELSE <<>>)
  \o (IF l.instructionalCount > 2
        THEN <<ToneReason(language)>> ELSE <<>>)
  \o (IF Len(l.themeKeywords) > 0 /\ ~l.companionFound
        THEN <<CompanionReason(theme, language)>> ELSE <<>>)

\* One run of evaluateStory: what it computed and what it returns.
evaluateStoryRun(narrative, childrenData, theme, language) ==
  CHOOSE run \in { [locals |-> l,
                     verdict |-> Verdict(Reasons(l, childrenData, theme, language))] :
                      l \in {EvalLocals(narrative, childrenData, theme, language)} } : TRUE

evaluateStory(narrative, childrenData, theme, language) ==
  evaluateStoryRun(narrative, childrenData, theme, language).verdict

\* evaluateStory on the arguments the retry loop can pass, worked out once.
LoopVerdicts ==
  [a \in ServiceStories \X ChildrenLists \X Themes \X {"en"} |->
     evaluateStory(a[1], a[2], a[3], a[4])] @@ <<>>

\* What one call of the narrative service yields to the handler.
\*   reject        openai.chat.completions.create throws
\*   empty         no content in the first choice
\*   noJson        content that does not parse and holds no {...}
\*   badJson       content that does not parse, whose {...} does not parse either
\*   badStructure  an object without title or sections
\*   a Narrative   an object with title and sections
FailedCalls == {"reject", "empty", "noJson", "badJson", "badStructure"}
ErrorOf(outcome) ==
  CASE outcome = "reject"       -> "OpenAI API error"
    [] outcome = "empty"        -> "No response from OpenAI"
    [] outcome = "noJson"       -> "Failed to parse story JSON from OpenAI response"
    [] outcome = "badJson"      -> "SyntaxError"
    [] outcome = "badStructure" -> "Invalid story structure received from OpenAI"

ErrorResponse(status, message) ==
  [status |-> status, error |-> message, story |-> NoData]
StoryResponseBody(data) ==
  [status |-> 200, error |-> Null, story |-> data]

PostInit ==
  /\ postPc = "idle"
  /\ body = BadBody
  /\ attempt = 0
  /\ storyData = NoData
  /\ lastEvaluation = NoData
  /\ response = NoData
  /\ calls = 0
  /\ outstanding = 0
  /\ lastOutcome = "none"
  /\ prompt = ""
  /\ received = <<>>
  /\ responseContent = Null

RECURSIVE JoinWith(_, _)
\* Array.prototype.join
JoinWith(strings, sep) ==
  IF strings = <<>> THEN ""
  ELSE IF Len(strings) = 1 THEN strings[1]
  ELSE strings[1] \o sep \o JoinWith(Tail(strings), sep)

\* The user prompt built from the request: its opening and the lines that
\* name the children and the preferred characters.
userPrompt(b) ==
  "Generate a bedtime story with the following details:\n\n"
  \o "CHILDREN (USE THESE EXACT NAMES AS CENTRAL PROTAGONISTS): "
  \o JoinWith(b.children, " and ") \o "\n"
  \o "Preferred characters/theme: "
  \o (IF Len(b.characters) > 0 THEN JoinWith(b.characters, ", ") ELSE "any")

\* lastEvaluation.reasons.map(r => `- ${r}`).join('\n')
ReasonLines(reasons) ==
  JoinWith([k \in 1..Len(reasons) |-> "- " \o reasons[k]], "\n")

\* Faulty variant of UserContent: the prompt is resent as it was.
UserContentWithoutReasons(k, evaluation, original) == original

\* The content of the user message of the call of attempt k.
UserContent(k, evaluation, original) ==
  IF k > 0 /\ evaluation # NoData
    THEN original
         \o "\n\nREGENERATION REQUIRED - Previous attempt failed evaluation:\n"
         \o ReasonLines(evaluation.reasons)
         \o "\n\nPlease regenerate the story ensuring ALL requirements are met."
    ELSE original

\* Faulty variant of StoryAfterInvalid: the invalid story is dropped on every attempt.
StoryAfterInvalidAlwaysReset(k, parsedStory) == NoData

\* Faulty variant of StoryAfterInvalid: the bound of the test is one too high.
StoryAfterInvalidOffByOne(k, parsedStory) ==
  IF k < MAX_RETRIES THEN NoData ELSE parsedStory

\* The loop body's last lines: an invalid story is dropped while retries
\* are left and kept on the last attempt.
StoryAfterInvalid(k, parsedStory) ==
  IF k < MAX_RETRIES - 1 THEN NoData ELSE parsedStory

\* Faulty variant of PostLoopResponse: the throw is taken with a story too.
PostLoopResponseAlwaysThrows(data) ==
  ErrorResponse(500, "Failed to generate valid story after retries")

\* After the loop: throw without a story, else the success response.
PostLoopResponse(data) ==
  IF data = NoData
    THEN ErrorResponse(500, "Failed to generate valid story after retries")
    ELSE StoryResponseBody(data)

\* ------------------------------------------------ the answer's content
\* JSON.stringify of the objects the answers hold.
SectionJson(sec) ==
  "{\"headline\":\"" \o sec.headline \o "\",\"body\":\"" \o sec.body \o "\"}"
StoryJson(v) ==
  "{" \o (IF "title" \in DOMAIN v THEN "\"title\":\"" \o v.title \o "\"," ELSE "")
      \o "\"sections\":["
      \o JoinWith([k \in 1..Len(v.sections) |-> SectionJson(v.sections[k])], ",")
      \o "]}"

\* The objects: the stories and an object without a title.
Untitled == [sections |-> <<>>]
JsonValues == ServiceStories \cup {Untitled}
JsonTexts == [v \in JsonValues |-> StoryJson(v)] @@ <<>>

\* JSON.parse on the texts of the model: the object whose JSON the text is,
\* a SyntaxError for every other text.
SyntaxError == [syntaxError |-> TRUE]
JSONparse(text) ==
  IF \E v \in JsonValues : JsonTexts[v] = text
    THEN CHOOSE v \in JsonValues : JsonTexts[v] = text
    ELSE SyntaxError

Positions(text, c) == { p \in 1..Len(text) : CharAt(text, p) = c }
Least(S) == CHOOSE x \in S : \A y \in S : x <= y
Greatest(S) == CHOOSE x \in S : \A y \in S : y <= x

\* responseContent.match(/\{[\s\S]*\}/): from the first "{" to the last "}"
\* after it, Null without such a pair.
jsonMatch(text) ==
  LET opens == Positions(text, "{")
      closes == Positions(text, "}")
  IN IF opens # {} /\ closes # {} /\ Least(opens) < Greatest(closes)
       THEN SubSeq(text, Least(opens), Greatest(closes))
       ELSE Null

\* !parsedStory.title || !parsedStory.sections || !Array.isArray(...)
HasStructure(v) ==
  /\ "title" \in DOMAIN v /\ v.title # ""
  /\ "sections" \in DOMAIN v

\* The loop body from the content to the validated story.
ParseResponse(content) ==
  LET strict == JSONparse(content)
      parsedStory ==
        IF strict # SyntaxError THEN strict
        ELSE IF jsonMatch(content) # Null THEN JSONparse(jsonMatch(content))
        ELSE NoData
  IN IF parsedStory = NoData THEN [outcome |-> "noJson", story |-> NoData]
     ELSE IF parsedStory = SyntaxError THEN [outcome |-> "badJson", story |-> NoData]
     ELSE IF ~HasStructure(parsedStory) THEN [outcome |-> "badStructure", story |-> NoData]
     ELSE [outcome |-> "story", story |-> parsedStory]

\* The contents the narrative service answers with: the JSON alone, the
\* JSON with prose around it, with braces in the prose after it, twice,
\* and texts without an object.
SampleJson == StoryJson([title |-> "A Bedtime Story", sections |-> <<>>])
Contents ==
  { StoryJson(v) : v \in JsonValues }
  \cup { "Here is your story:\n" \o StoryJson(v) \o "\nSweet dreams!" : v \in JsonValues }
  \cup { SampleJson \o "\n(Set in {place}.)",
         SampleJson \o "\n" \o SampleJson,
         "I cannot write this story.",
         "{\"title\":\"Mia" }

ParseResults == [c \in Contents |-> ParseResponse(c)] @@ <<>>

\* What a call of the narrative service yields: a throw, or a content
\* (none is the empty content).
Rejected == [rejected |-> TRUE]
ServiceAnswers == {Rejected} \cup [content : Contents \cup {""}]
ContentOf(answer) == IF answer = Rejected THEN Null ELSE answer.content
OutcomeOf(answer) ==
  IF answer = Rejected THEN "reject"
  ELSE IF answer.content = "" THEN "empty"
  ELSE ParseResults[answer.content].outcome
StoryOf(answer) ==
  IF OutcomeOf(answer) = "story" THEN ParseResults[answer.content].story ELSE NoData

\* Faulty variant of FailsValidation: an empty list passes.
FailsValidationOnlyMissing(b) == ~HasChildren(b)

\* !body.children || body.children.length === 0
FailsValidation(b) == ~HasChildren(b) \/ Len(b.children) = 0

\* POST from its first line to the first call of the narrative service.
PostReceive ==
  /\ postPc = "idle"
  /\ lastOutcome' = "none"
  /\ received' = <<>>
  /\ responseContent' = Null
  /\ \E b \in Bodies, apiKeySet \in BOOLEAN :
       /\ body' = b
       /\ attempt' = 0
       /\ storyData' = NoData
       /\ lastEvaluation' = NoData
       /\ IF b = BadBody
            THEN /\ response' = ErrorResponse(413, "Request body too large or invalid")
                 /\ postPc' = "done"
                 /\ calls' = 0 /\ outstanding' = 0 /\ prompt' = ""
          ELSE IF FailsValidation(b)
            THEN /\ response' = ErrorResponse(400, "At least one child is required")
                 /\ postPc' = "done"
                 /\ calls' = 0 /\ outstanding' = 0 /\ prompt' = ""
          ELSE IF ~apiKeySet
            THEN /\ response' = ErrorResponse(500, "OpenAI API key is not configured")
                 /\ postPc' = "done"
                 /\ calls' = 0 /\ outstanding' = 0 /\ prompt' = ""
          ELSE \* the loop is entered: attempt 0 < MAX_RETRIES
                 /\ response' = IF 0 < MAX_RETRIES THEN NoData
                                ELSE PostLoopResponse(NoData)
                 /\ postPc' = IF 0 < MAX_RETRIES THEN "calling" ELSE "done"
                 /\ calls' = IF 0 < MAX_RETRIES THEN 1 ELSE 0
                 /\ outstanding' = IF 0 < MAX_RETRIES THEN 1 ELSE 0
                 /\ prompt' = UserContent(0, NoData, userPrompt(b))
  /\ UNCHANGED <<pageVars, evalVars, libVars>>

\* The loop body after the awaited call, to the next call or to the return.
PostCompletion ==
  /\ postPc = "calling"
  /\ \E answer \in ServiceAnswers :
       LET kind == OutcomeOf(answer)
           parsedStory == StoryOf(answer)
       IN
       /\ responseContent' = ContentOf(answer)
       /\ lastOutcome' = kind
       /\ IF kind \in FailedCalls
            THEN \* thrown, caught by the handler's catch: a 500 response
              /\ response' = ErrorResponse(500, ErrorOf(kind))
              /\ postPc' = "done"
              /\ outstanding' = outstanding - 1
              /\ UNCHANGED <<attempt, storyData, lastEvaluation, calls, prompt,
                             received>>
            ELSE
              LET evaluation ==
                    LoopVerdicts[<<parsedStory, body.children, body.characters,
                                   body.language>>]
              IN
              /\ received' = Append(received, parsedStory)
              /\ lastEvaluation' = evaluation
              /\ IF evaluation.valid
                   THEN \* break
                     /\ storyData' = parsedStory
                     /\ response' = PostLoopResponse(parsedStory)
                     /\ postPc' = "done"
                     /\ outstanding' = outstanding - 1
                     /\ UNCHANGED <<attempt, calls, prompt>>
                 ELSE IF attempt + 1 < MAX_RETRIES
                   THEN \* attempt++ and the next call
                     /\ storyData' = StoryAfterInvalid(attempt, parsedStory)
                     /\ attempt' = attempt + 1
                     /\ response' = NoData
                     /\ postPc' = "calling"
                     /\ calls' = calls + 1
                     /\ outstanding' = (outstanding - 1) + 1
                     /\ prompt' = UserContent(attempt + 1, evaluation, userPrompt(body))
                   ELSE \* the loop ends
                     /\ storyData' = StoryAfterInvalid(attempt, parsedStory)
                     /\ attempt' = attempt + 1
                     /\ response' = PostLoopResponse(StoryAfterInvalid(attempt, parsedStory))
                     /\ postPc' = "done"
                     /\ outstanding' = outstanding - 1
                     /\ UNCHANGED <<calls, prompt>>
  /\ UNCHANGED <<body, pageVars, evalVars, libVars>>

\* The handler has returned; the next request may arrive.
PostReturn ==
  /\ postPc = "done"
  /\ postPc' = "idle"
  /\ UNCHANGED <<body, attempt, storyData, lastEvaluation, response, calls,
                 outstanding, lastOutcome, prompt, received, responseContent,
                 pageVars, evalVars,
                 libVars>>

PostNext ==
  \/ PostReceive
  \/ PostCompletion
  \/ PostReturn

\* ======================================================================
\* The generate-image route handler
\* ======================================================================
\* What generateAIImage is called with: the visual style, the custom visual
\* style typed into the form, the children and the enjoyed characters.
VisualStyles == { <<>>, <<"Cartoon">>, <<"Sketch">> }
CustomVisualStyles == { "", "soft watercolor" }

\* The body generateAIImage posts: prompt only with a custom visual style.
ImageRequestBody(visualStyle, customVisualStyle, children, enjoyedCharacters) ==
  [visualStyle |-> visualStyle,
   children |-> children,
   enjoyedCharacters |-> enjoyedCharacters,
   prompt |-> IF customVisualStyle # "" THEN customVisualStyle ELSE Null]

ImageBodies ==
  { ImageRequestBody(v, c, ch, e) :
      v \in VisualStyles, c \in CustomVisualStyles, ch \in ChildrenLists, e \in Themes }

StylesWithModifiers == {"Cartoon", "Realistic"}
styleModifiers ==
  [st \in StylesWithModifiers |->
     IF st = "Cartoon"
       THEN [colorPalette |-> "bright, vibrant colors",
             lighting     |-> "soft, even lighting",
             detailLevel  |-> "simple shapes with soft outlines",
             artisticTone |-> "playful cartoon style with rounded forms"]
       ELSE [colorPalette |-> "natural, true-to-life colors",
             lighting     |-> "natural lighting with realistic shadows",
             detailLevel  |-> "high detail with lifelike proportions",
             artisticTone |-> "realistic illustration with photographic qualities"]]
getStylePromptModifiers(visualStyle) ==
  IF visualStyle[1] \in StylesWithModifiers
    THEN styleModifiers[visualStyle[1]] ELSE styleModifiers["Realistic"]

getThemeCompanionDescription(theme) ==
  IF SelectedTheme(theme) = "Dragons"
    THEN "a friendly, gentle dragon clearly visible near the children. "
         \o "The dragon must be smiling, calm, protective, and playful"
    ELSE "friendly companions"
getThemeNegativeConstraints(theme) ==
  IF SelectedTheme(theme) = "Dragons"
    THEN "NO fire breathing, NO scary dragon, NO battle, NO danger, NO violence"
    ELSE "NO violence, NO scary imagery, NO villains, NO aggression"

childCountDescription(childCount) ==
  CASE childCount = 1 -> "exactly one child"
    [] childCount = 2 -> "exactly two children together"
    [] childCount = 3 -> "exactly three children together"
    [] OTHER -> "children"

\* The prompt the handler builds when the request brings none.
BuiltImagePrompt(b) ==
  LET modifiers == getStylePromptModifiers(b.visualStyle)
      childCount == Len(b.children)
      childNamesText ==
        IF childCount > 0 THEN " (named " \o JoinWith(b.children, " and ") \o ")"
        ELSE ""
  IN "Create a beautiful " \o modifiers.artisticTone
     \o " illustration for a children's bedtime story book cover. \n\n"
     \o "CHILD COUNT REQUIREMENT (HARD CONSTRAINT):\n"
     \o "- Show " \o childCountDescription(childCount) \o childNamesText \o "\n"
     \o "- " \o (IF childCount = 0 THEN "Include children"
                 ELSE "Include exactly " \o ToString(childCount) \o " child"
                      \o (IF childCount > 1 THEN "ren" ELSE ""))
     \o " - no extra children, no missing children\n\n"
     \o "THEME COMPANION REQUIREMENT (HARD CONSTRAINT):\n"
     \o "- Include " \o getThemeCompanionDescription(b.enjoyedCharacters) \o "\n"
     \o "- " \o getThemeNegativeConstraints(b.enjoyedCharacters) \o "\n\n"
     \o "STYLE REQUIREMENTS:\n"
     \o "- Use " \o modifiers.colorPalette \o "\n"
     \o "- Apply " \o modifiers.lighting \o "\n"
     \o "- Include " \o modifiers.detailLevel

\* let imagePrompt = prompt; if (!imagePrompt) { ... }
ImagePromptOf(b) == IF b.prompt \in {Null, ""} THEN BuiltImagePrompt(b) ELSE b.prompt

ImageRouteIdle ==
  /\ imagePc = "idle"
  /\ imageBody = NoData
  /\ imagePrompt = Null
  /\ imageResponse = NoData


ImageErrorResponse(status, message) ==
  [status |-> status, error |-> message, imageUrl |-> Null]

\* POST from its first line to the call of the synthesis service.
ImageReceive ==
  /\ imagePc = "idle"
  /\ \E b \in ImageBodies, apiKeySet \in BOOLEAN :
       /\ imageBody' = b
       /\ IF Len(b.visualStyle) = 0
            THEN /\ imageResponse' = ImageErrorResponse(400, "Visual style is required")
                 /\ imagePrompt' = Null
                 /\ imagePc' = "done"
          ELSE IF ~apiKeySet
            THEN /\ imageResponse' = ImageErrorResponse(500, "OpenAI API key is not configured")
                 /\ imagePrompt' = Null
                 /\ imagePc' = "done"
          ELSE /\ imageResponse' = NoData
               /\ imagePrompt' = ImagePromptOf(b)
               /\ imagePc' = "calling"
  /\ UNCHANGED <<pageVars, postVars, evalVars, compositorVars, uploadVars>>

\* What openai.images.generate yields: an image URL, no data, no URL, a throw.
ImageServiceOutcomes == {"url", "noData", "noUrl", "reject"}

\* The handler after the awaited call.
ImageCompletion ==
  /\ imagePc = "calling"
  /\ \E outcome \in ImageServiceOutcomes :
       imageResponse' =
         CASE outcome = "url" ->
                [status |-> 200, error |-> Null, imageUrl |-> "https://image"]
           [] outcome = "noData" ->
                ImageErrorResponse(500, "No image data returned from OpenAI")
           [] outcome = "noUrl" ->
                ImageErrorResponse(500, "No image URL returned from OpenAI")
           [] outcome = "reject" -> ImageErrorResponse(500, "OpenAI API error")
  /\ imagePc' = "done"
  /\ UNCHANGED <<imageBody, imagePrompt, pageVars, postVars, evalVars,
                 compositorVars, uploadVars>>

\* The handler has returned; the next request may arrive.
ImageReturn ==
  /\ imagePc = "done"
  /\ imagePc' = "idle"
  /\ UNCHANGED <<imageBody, imagePrompt, imageResponse, pageVars, postVars, evalVars,
                 compositorVars, uploadVars>>

ImageNext ==
  \/ ImageReceive
  \/ ImageCompletion
  \/ ImageReturn

\* ======================================================================
\* processUploadedPhoto
\* ======================================================================
\* The numbers of the geometry are fractions n/d in lowest terms, d > 0.
Abs(k) == IF k < 0 THEN -k ELSE k
RECURSIVE GCD(_, _)
GCD(a, b) == IF b = 0 THEN a ELSE GCD(b, a % b)
Frac(n, d) == [n |-> n \div GCD(Abs(n), d), d |-> d \div GCD(Abs(n), d)]
Whole(k) == [n |-> k, d |-> 1]
Times(x, y) == Frac(x.n * y.n, x.d * y.d)
\* x / y for y > 0
Over(x, y) == Frac(x.n * y.d, x.d * y.n)
Minus(x, y) == Frac(x.n * y.d - y.n * x.d, x.d * y.d)
Plus(x, y) == Frac(x.n * y.d + y.n * x.d, x.d * y.d)
LessEq(x, y) == x.n * y.d <= y.n * x.d
MathMin(x, y) == IF LessEq(x, y) THEN x ELSE y

\* The sizes of the uploaded photos, in pixels.
SourceWidths == {1, 300, 400, 960, 1536, 1920, 4000}
SourceHeights == {1, 300, 400, 960, 1200, 3000}
Sizes(widths, heights) == [width : widths, height : heights]
\* The options: the size the story page asks for, another one, and none.
NoSize == [width |-> 0, height |-> 0]
OptionSizes == {[width |-> 1536, height |-> 960], [width |-> 800, height |-> 800], NoSize}

DefaultWidth == 1536
DefaultHeight == 960
\* options.width || 1536, options.height || 960
targetWidth(o) == IF o.width # 0 THEN o.width ELSE DefaultWidth
targetHeight(o) == IF o.height # 0 THEN o.height ELSE DefaultHeight

\* The zoom applied to the contain scale: 1.2
Zoom == Frac(12, 10)

\* Faulty variant of Centered: the rectangle is put at the origin.
CenteredAtOrigin(target, scaled) == Whole(0)

\* (target - scaled) / 2
Centered(target, scaled) == Over(Minus(Whole(target), scaled), Whole(2))

\* The arguments of ctx.drawImage for a source image on a canvas.
DrawImageArgs(image, cv) ==
  LET scaleX == Over(Whole(cv.width), Whole(image.width))
      scaleY == Over(Whole(cv.height), Whole(image.height))
      containScale == MathMin(scaleX, scaleY)
      zoomScale == Times(containScale, Zoom)
      scaledWidth == Times(Whole(image.width), zoomScale)
      scaledHeight == Times(Whole(image.height), zoomScale)
      drawX == Centered(cv.width, scaledWidth)
      drawY == Centered(cv.height, scaledHeight)
  IN [sx |-> 0, sy |-> 0, sWidth |-> image.width, sHeight |-> image.height,
      dx |-> drawX, dy |-> drawY, dWidth |-> scaledWidth, dHeight |-> scaledHeight]

CompositorIdle ==
  /\ photoPc = "idle"
  /\ photo = NoData
  /\ options = NoData
  /\ canvas = NoData
  /\ drawImage = NoData


\* processUploadedPhoto is called and the image loads.
PhotoLoad ==
  /\ photoPc \in {"idle", "drawn"}
  /\ \E image \in Sizes(SourceWidths, SourceHeights), o \in OptionSizes :
       /\ photo' = image
       /\ options' = o
  /\ canvas' = NoData
  /\ drawImage' = NoData
  /\ photoPc' = "loaded"
  /\ UNCHANGED <<pageVars, postVars, evalVars, imageRouteVars, uploadVars>>

\* img.onload: the canvas is sized and the image drawn.
PhotoDraw ==
  /\ photoPc = "loaded"
  /\ canvas' = [width |-> targetWidth(options), height |-> targetHeight(options)]
  /\ drawImage' = DrawImageArgs(photo, canvas')
  /\ photoPc' = "drawn"
  /\ UNCHANGED <<photo, options, pageVars, postVars, evalVars, imageRouteVars,
                 uploadVars>>

PhotoNext ==
  \/ PhotoLoad
  \/ PhotoDraw

\* ======================================================================
\* handlePhotoUpload
\* ======================================================================
\* Change events handled in one run of the form.
MaxUploads == 2

MAX_FILE_SIZE_Doubled == 2 * 10 * 1024 * 1024

MAX_FILE_SIZE == 10 * 1024 * 1024
allowedTypes == {"image/jpeg", "image/jpg", "image/png", "image/webp"}

\* The files chosen: size in bytes, MIME type and name as the browser gives them.
FileSizes == {1024, MAX_FILE_SIZE, MAX_FILE_SIZE + 1}
FileTypes == {"image/jpeg", "IMAGE/PNG", "image/webp", "image/gif", ""}
FileNames == {"photo.JPG", "photo.webp", "anim.gif", "notes"}
Files == [size : FileSizes, type : FileTypes, name : FileNames]

\* String.prototype.endsWith
endsWith(s, suffix) ==
  Len(s) >= Len(suffix) /\ SubSeq(s, Len(s) - Len(suffix) + 1, Len(s)) = suffix

hasValidExtension(f) ==
  \E ext \in {".jpg", ".jpeg", ".png", ".webp"} : endsWith(toLowerCase(f.name), ext)

\* The two validations of handlePhotoUpload.
TooLarge(f) == f.size > MAX_FILE_SIZE
WrongType(f) == toLowerCase(f.type) \notin allowedTypes /\ ~hasValidExtension(f)

\* reader.result of readAsDataURL
DataUrl(f) == "data:" \o f.type \o ";base64," \o f.name

UploadIdle ==
  /\ file = NoData
  /\ uploadedPhoto = NoData
  /\ photoPreview = Null
  /\ uploadError = Null
  /\ readers = {}
  /\ uploads = 0
  /\ submitted = NoData

LibIdle == ImageRouteIdle /\ CompositorIdle /\ UploadIdle

\* The change event of the file input with a file chosen.
handlePhotoUpload ==
  /\ submitted = NoData
  /\ uploads < MaxUploads
  /\ uploads' = uploads + 1
  /\ \E f \in Files :
       /\ file' = f
       /\ IF TooLarge(f)
            THEN /\ uploadError' = "Image size must be 10MB or less."
                 /\ uploadedPhoto' = NoData
                 /\ photoPreview' = Null
                 /\ UNCHANGED readers
          ELSE IF WrongType(f)
            THEN /\ uploadError' = "Please upload a JPG, PNG, or WebP image."
                 /\ uploadedPhoto' = NoData
                 /\ photoPreview' = Null
                 /\ UNCHANGED readers
          ELSE /\ uploadError' = Null
               /\ uploadedPhoto' = f
               /\ readers' = readers \cup {f}
               /\ UNCHANGED photoPreview
  /\ UNCHANGED <<submitted, pageVars, postVars, evalVars, imageRouteVars,
                 compositorVars>>

\* reader.onloadend after a read that succeeded.
ReaderLoadEnd ==
  /\ submitted = NoData
  /\ \E f \in readers :
       /\ readers' = readers \ {f}
       /\ photoPreview' = DataUrl(f)
  /\ UNCHANGED <<file, uploadedPhoto, uploadError, uploads, submitted,
                 pageVars, postVars, evalVars, imageRouteVars, compositorVars>>

\* reader.onerror, then reader.onloadend with no result.
ReaderError ==
  /\ submitted = NoData
  /\ \E f \in readers : readers' = readers \ {f}
  /\ uploadError' = "Failed to read the image file. Please try again."
  /\ uploadedPhoto' = NoData
  /\ photoPreview' = Null
  /\ UNCHANGED <<file, uploads, submitted, pageVars, postVars, evalVars,
                 imageRouteVars, compositorVars>>

\* photoPreview.split(',')[1]: the text between the first comma and the
\* next one, or the end of the string.
AfterFirstComma(text) ==
  LET commas == Positions(text, ",")
      first == Least(commas)
      later == { c \in commas : c > first }
      last == IF later = {} THEN Len(text) ELSE Least(later) - 1
  IN SubSeq(text, first + 1, last)

\* handleSubmit: the photo of the form data stored under 'storyFormData';
\* the page then navigates to the story page and the form is gone.
handleSubmit ==
  /\ submitted = NoData
  /\ submitted' =
       [photoBase64 |->
          IF uploadedPhoto # NoData /\ photoPreview # Null
            THEN AfterFirstComma(photoPreview)
            ELSE Null]
  /\ UNCHANGED <<file, uploadedPhoto, photoPreview, uploadError, readers, uploads,
                 pageVars, postVars, evalVars, imageRouteVars, compositorVars>>

UploadNext ==
  \/ handlePhotoUpload
  \/ ReaderLoadEnd
  \/ ReaderError
  \/ handleSubmit

\* ------------------------------------------------ evaluateStory alone
\* The children lists evaluateStory is called with: one to MaxChildren
\* different names in any order.
EvalChildrenLists ==
  { c \in UNION { [1..n -> Names] : n \in 1..MaxChildren } :
      \A k, m \in 1..Len(c) : c[k] = c[m] => k = m }

Languages == {"en", "fr"}

EvalIdle ==
  /\ evPc = "idle"
  /\ evStory = NoData
  /\ evChildren = <<>>
  /\ evTheme = <<>>
  /\ evLanguage = "en"
  /\ evLocals = NoData
  /\ evVerdict = NoData

\* A call of evaluateStory with arguments from the bounded sets.
EvalInit ==
  /\ PageInit
  /\ PostInit
  /\ LibIdle
  /\ evPc = "ready"
  /\ evStory \in Narratives
  /\ evChildren \in EvalChildrenLists
  /\ evTheme \in Themes
  /\ evLanguage \in Languages
  /\ evLocals = NoData
  /\ evVerdict = NoData

\* evaluateStory runs and returns.
Evaluate ==
  /\ evPc = "ready"
  /\ \E run \in {evaluateStoryRun(evStory, evChildren, evTheme, evLanguage)} :
       /\ evLocals' = run.locals
       /\ evVerdict' = run.verdict
  /\ evPc' = "done"
  /\ UNCHANGED <<evStory, evChildren, evTheme, evLanguage, pageVars, postVars,
                 libVars>>

EvalNext == Evaluate

Init == PageInit /\ PostInit /\ EvalIdle /\ LibIdle

Next == PageNext

\* The story page in the browser.
Spec == Init /\ [][Next]_vars

\* The route handler on the server.
PostSpec == Init /\ [][PostNext]_vars

\* evaluateStory on every argument list of the bounded sets.
EvalSpec == EvalInit /\ [][EvalNext]_vars

\* The generate-image route handler on the server.
ImageSpec == Init /\ [][ImageNext]_vars

\* processUploadedPhoto on every source size and option of the bounded sets.
PhotoSpec == Init /\ [][PhotoNext]_vars

\* The photo upload of the form.
UploadSpec == Init /\ [][UploadNext]_vars

\* The narrative service answers every call.
PostFairSpec == PostSpec /\ WF_vars(PostCompletion)

\* ======================================================================
\* Properties
\* ======================================================================
\* A session runs from a submission to handleNewStory; while it runs the
\* submitted answers are in the store.
SessionActive == sessionStorage.storyFormData # NoData
SessionInstances == { i \in Inst : inSession[i] }

\* Positions of an image function between its first await and its end.
ImagePending == {"awaitSynth", "awaitCompose", "awaitEnhance"}

\* The instance has issued an acquisition (minted a token and gone to its
\* first outbound step).
Issued(i) == imgPc[i] # "idle"
\* The instance's acquisition became final.
Finalized(i) == imgPc[i] = "done"
\* generateStory was invoked for the instance.
StoryInvoked(i) == storyPc[i] # "idle"

\* ---------------------------------------------------------------- C1
\* C1: within one session at most one image acquisition result becomes
\* final, and once imageLockedRef is set (in the mounted page) no later
\* continuation of generateAIImage / processUploadedPhotoImage changes the
\* displayed image or the 'storyCoverImage' entry.
C1_OneFinalResultImmutable ==
  [][ /\ Cardinality({ i \in SessionInstances : Finalized(i) })' <= 1
      /\ (mounted # 0 /\ mounted' = mounted /\ imageLockedRef[mounted])
           => /\ generatedImageUrl'[mounted] = generatedImageUrl[mounted]
              /\ sessionStorage'.storyCoverImage = sessionStorage.storyCoverImage
    ]_vars

\* ---------------------------------------------------------------- C2
\* C2: when the answers ask for a cover image and two or more triggers of
\* one session have reached the image-start guard of generateStory, exactly
\* one of them has issued an acquisition.
C2_SingleShot ==
  ( /\ SessionActive
    /\ sessionStorage.storyFormData.includeImages
    /\ HasVisualStyle(sessionStorage.storyFormData)
    /\ Cardinality({ i \in SessionInstances : storyPc[i] = "done" }) >= 2 )
  => Cardinality({ i \in SessionInstances : Issued(i) }) = 1

\* ---------------------------------------------------------------- C3
\* C3: a continuation of an image function that resumes with a requestId
\* different from generationRequestIdRef.current sets no generatedImageUrl,
\* sets no lock and writes nothing to the store.
C3_Staleness ==
  [][ \A i \in Inst :
        ( /\ imgPc[i] \in ImagePending
          /\ requestId[i] # generationRequestIdRef[i]
          /\ imgPc'[i] # imgPc[i] )
        => /\ generatedImageUrl' = generatedImageUrl
           /\ imageLockedRef' = imageLockedRef
           /\ sessionStorage' = sessionStorage
    ]_vars

\* A stale continuation has resumed and has been dropped.
C3_Witness ==
  \E i \in Inst :
    /\ imgPc[i] = "discarded"
    /\ requestId[i] # generationRequestIdRef[i]
    /\ ~imageLockedRef[i]
    /\ generatedImageUrl[i] = NoData

\* ---------------------------------------------------------------- C4
\* C4: while a session runs, generateStory has been invoked exactly once in
\* it, however often the page was initialized.
C4_OneNarrativeSequence ==
  SessionActive
    => Cardinality({ i \in SessionInstances : StoryInvoked(i) }) = 1

\* ---------------------------------------------------------------- C5
\* C5: a request makes at most 3 narrative-service calls, never has two of
\* them outstanding, and the handler returns.
C5_BoundedSequentialTerminates ==
  /\ [](calls <= 3 /\ outstanding <= 1)
  /\ (postPc = "calling") ~> (postPc = "done")

\* Three calls were made for a request with a child and the handler returned.
C5_Witness ==
  /\ postPc = "done"
  /\ calls = 3
  /\ Len(body.children) >= 1

\* ---------------------------------------------------------------- C6
\* A request with at least one child has been answered.
AnsweredWithChild ==
  /\ postPc = "done"
  /\ body # BadBody
  /\ HasChildren(body)
  /\ Len(body.children) >= 1

C7_NarrativeBeforeImage ==
  \A i, j \in SessionInstances :
    storyPc[i] = "awaitStory" => imgPc[j] \notin ImagePending

\* ---------------------------------------------------------------- C8
\* A new instance is mounted in this step.
Mounting == mounts' = mounts + 1

\* A restored instance mints no token and makes no compositor, synthesis or
\* refinement call.
RestoredStayIdle ==
  \A i \in Inst :
    restored[i] => /\ imgPc[i] = "idle"
                   /\ storyPc[i] = "idle"
                   /\ requestId[i] = 0
                   /\ generationRequestIdRef[i] = 0

C9_LockedImpliesPersisted ==
  \A i \in Inst :
    (mounted = i /\ imageLockedRef[i])
      => /\ sessionStorage.storyCoverImage # NoData
         /\ sessionStorage.storyCoverImage.imageUrl = generatedImageUrl[i]

\* ---------------------------------------------------------------- C10
\* C10: a token is minted and an image call issued only by a generateStory
\* whose narrative request has just completed, whose answers have
\* includeImages true and a visual style, and whose instance is neither
\* locked nor started.
C10_StartOnlyUnderGuard ==
  [][ \A i \in Inst :
        ( \/ generationRequestIdRef'[i] > generationRequestIdRef[i]
          \/ (imgPc[i] = "idle" /\ imgPc'[i] # "idle") )
        => /\ storyPc[i] = "awaitStory" /\ storyPc'[i] = "done"
           /\ formData[i].includeImages = TRUE
           /\ Len(formData[i].visualStyle) > 0
           /\ ~imageLockedRef[i]
           /\ ~imageGenerationStartedRef[i]
    ]_vars

\* One narrative completed without starting an image (no images asked for,
\* or no style), another started its acquisition.
C10_Witness ==
  \E i, j \in Inst :
    /\ storyPc[i] = "done" /\ imgPc[i] = "idle" /\ generationRequestIdRef[i] = 0
    /\ (~formData[i].includeImages \/ Len(formData[i].visualStyle) = 0)
    /\ storyPc[j] = "done" /\ imgPc[j] \in ImagePending
    /\ generationRequestIdRef[j] = 1

\* ---------------------------------------------------------------- C11
\* C11: when the synthesis call (Path S) or the compositor (Path U) fails
\* while the call's token is the current one and the image is unlocked,
\* imageGenerationStartedRef becomes false, imageLockedRef stays false, the
\* store is not written, an error is set and isGeneratingImage becomes false.
C11_FailureClearsStarted ==
  [][ \A i \in Inst :
        ( /\ imgPc[i] \in ImagePending
          /\ imgPc'[i] = "failed"
          /\ requestId[i] = generationRequestIdRef[i]
          /\ ~imageLockedRef[i] )
        => /\ ~imageGenerationStartedRef'[i]
           /\ ~imageLockedRef'[i]
           /\ sessionStorage' = sessionStorage
           /\ error'[i] # Null
           /\ ~isGeneratingImage'[i]
    ]_vars

\* One instance failed on Path S and another on Path U, each with its
\* current token: the error is shown and the started flag is clear.
C11_Witness ==
  \E i, j \in Inst :
    /\ imgPc[i] = "failed" /\ error[i] = "Failed to generate image"
    /\ services[i] = {"synthesis"} /\ ~imageGenerationStartedRef[i]
    /\ imgPc[j] = "failed" /\ error[j] = "Failed to process photo"
    /\ services[j] = {"compositor"} /\ ~imageGenerationStartedRef[j]

\* ---------------------------------------------------------------- C12
\* C12: on Path U, when the refinement call returns without an image
\* (rejection, non-OK status, success false, success without an image) to a
\* call whose token is current and whose image is unlocked, the function
\* finalizes with the composited image: no error is set, the lock is set
\* and the result is in the store under 'storyCoverImage'.
C12_RefinementFallbackPersists ==
  [][ \A i \in Inst :
        ( /\ imgPc[i] = "awaitEnhance"
          /\ imgPc'[i] # "awaitEnhance"
          /\ requestId[i] = generationRequestIdRef[i]
          /\ ~imageLockedRef[i]
          /\ enhancedImage'[i] = NoData )
        => /\ imgPc'[i] = "done"
           /\ generatedImageUrl'[i] = croppedImage[i]
           /\ error'[i] = error[i]
           /\ imageLockedRef'[i]
           /\ sessionStorage'.storyCoverImage # NoData
           /\ sessionStorage'.storyCoverImage.imageUrl = croppedImage[i]
    ]_vars

\* ---------------------------------------------------------------- C13
\* C13: handleNewStory removes 'storyFormData' and 'storyCoverImage' and
\* leaves imageLockedRef, imageGenerationStartedRef, generationRequestIdRef
\* and initializationCompleteRef of the page at their initial values.
C13_NewStoryResetsAll ==
  [][ handleNewStory =>
        /\ sessionStorage'.storyFormData = NoData
        /\ sessionStorage'.storyCoverImage = NoData
        /\ ~imageLockedRef'[mounted]
        /\ ~imageGenerationStartedRef'[mounted]
        /\ generationRequestIdRef'[mounted] = 0
        /\ ~initializationCompleteRef'[mounted]
    ]_vars

\* ---------------------------------------------------------------- C14
\* C14: generationRequestIdRef never decreases, and a call that enters
\* in-flight captures a token greater than every token captured before.
C14_TokenMonotonic ==
  [][ \A i \in Inst :
        /\ generationRequestIdRef'[i] >= generationRequestIdRef[i]
        /\ (imgPc[i] = "idle" /\ imgPc'[i] \in ImagePending)
             => \A j \in Inst : imgPc[j] # "idle" => requestId'[i] > requestId[j]
    ]_vars

\* ---------------------------------------------------------------- C15
\* C15: an instance's image acquisition makes the calls of exactly one path:
\* with a photo in the answers the compositor and then at most the
\* refinement call and never the synthesis call, without a photo the
\* synthesis call only.
C15_ExclusivePaths ==
  \A i \in Inst :
    /\ services[i] # {} =>
         IF formData[i].photoBase64 \notin {Null, ""}
           THEN "compositor" \in services[i]
                /\ services[i] \subseteq {"compositor", "refinement"}
           ELSE services[i] = {"synthesis"}
    /\ imgPc[i] = "awaitSynth" => services[i] = {"synthesis"}
    /\ imgPc[i] = "awaitCompose" => services[i] = {"compositor"}
    /\ imgPc[i] = "awaitEnhance" => services[i] = {"compositor", "refinement"}

\* One acquisition took Path S and another Path U up to the refinement call.
C15_Witness ==
  \E i, j \in Inst :
    /\ formData[i] # NoData /\ formData[i].photoBase64 = Null
    /\ services[i] = {"synthesis"}
    /\ formData[j] # NoData /\ formData[j].photoBase64 = "photo"
    /\ services[j] = {"compositor", "refinement"}

\* ======================================================================
\* Properties of evaluateStory
\* ======================================================================
\* evaluateStory has returned.
Evaluated == evPc = "done"

StartsWith(s, prefix) ==
  Len(s) >= Len(prefix) /\ SubSeq(s, 1, Len(prefix)) = prefix

\* The check (1..4) a reason of the Verdict belongs to, by its wording.
ReasonCheck(r) ==
  CASE r \in {ProtagonistReason("en"), ProtagonistReason("fr")} -> 2
    [] r \in {ToneReason("en"), ToneReason("fr")} -> 3
    [] StartsWith(r, "Theme companion (") \/ StartsWith(r, "Le compagnon thématique (") -> 4
    [] OTHER -> 1
ReasonsOfCheck(j) ==
  { a \in 1..Len(evVerdict.reasons) : ReasonCheck(evVerdict.reasons[a]) = j }

\* The children whose name check 1 did not count.
ChildrenNotCounted == { k \in 1..Len(evChildren) : evLocals.nameCount[k] = 0 }
\* Checks 3 and 4 as the function decides them.
ToneCheckFails == evLocals.instructionalCount > 2
CompanionCheckFails == Len(evLocals.themeKeywords) > 0 /\ ~evLocals.companionFound
\* The minimum of check 2 as the claims state it.
ClaimedMinimum == IF evLocals.totalChildMentions <= 3 THEN 1 ELSE 2
BelowClaimedMinimum == evLocals.activeChildMentions < ClaimedMinimum
\* Check 2 as the function decides it.
MentionedAndBelowMinimum == evLocals.totalChildMentions > 0 /\ BelowClaimedMinimum

BoolToNat(b) == IF b THEN 1 ELSE 0

\* ---------------------------------------------------------------- C16
\* C16: for every child of the list, when the text of the Narrative (title,
\* headlines and bodies, letter case ignored) does not contain the child's
\* name, the Verdict is invalid and one of its reasons contains that name.
C16_OmittedNameIsReported ==
  Evaluated =>
    \A k \in 1..Len(evChildren) :
      ~Includes(evLocals.fullStoryText, toLowerCase(evChildren[k]))
        => /\ ~evVerdict.valid
           /\ \E a \in 1..Len(evVerdict.reasons) :
                Includes(evVerdict.reasons[a], evChildren[k])

FailedChecks ==
  BoolToNat(ChildrenNotCounted # {}) + BoolToNat(MentionedAndBelowMinimum)
    + BoolToNat(ToneCheckFails) + BoolToNat(CompanionCheckFails)

\* The reasons are listed in the order of the checks.
ReasonsInCheckOrder ==
  \A a, b \in 1..Len(evVerdict.reasons) :
    a < b => ReasonCheck(evVerdict.reasons[a]) <= ReasonCheck(evVerdict.reasons[b])

\* C19 as claimed: the Verdict carries exactly one reason per failed check,
\* in check order, so it has as many reasons as checks failed.
C19_OneReasonPerFailedCheck ==
  Evaluated =>
    /\ Len(evVerdict.reasons) = FailedChecks
    /\ ReasonsInCheckOrder

\* C19 amended: the Verdict carries one reason for each child whose name
\* check 1 did not count, then one reason for each of the checks 2, 3 and 4
\* that failed, in check order.
C19_ReasonPerChildThenPerCheck ==
  Evaluated =>
    /\ Cardinality(ReasonsOfCheck(1)) = Cardinality(ChildrenNotCounted)
    /\ \A k \in ChildrenNotCounted :
         \E a \in ReasonsOfCheck(1) : Includes(evVerdict.reasons[a], evChildren[k])
    /\ Cardinality(ReasonsOfCheck(2)) = BoolToNat(MentionedAndBelowMinimum)
    /\ Cardinality(ReasonsOfCheck(3)) = BoolToNat(ToneCheckFails)
    /\ Cardinality(ReasonsOfCheck(4)) = BoolToNat(CompanionCheckFails)
    /\ ReasonsInCheckOrder

\* Two children are not named and two more checks failed.
C19_Witness ==
  /\ Evaluated
  /\ Cardinality(ChildrenNotCounted) = 2
  /\ ToneCheckFails
  /\ CompanionCheckFails
  /\ Len(evVerdict.reasons) = 4

\* ---------------------------------------------------------------- C20
\* Check 2 failed: its reason is in the Verdict.
ProtagonistReasonGiven == ReasonsOfCheck(2) # {}

\* C20 as claimed: check 2 fails exactly when the active-pattern count is
\* below the minimum, which is 1 for 0 to 3 mentions and 2 for more.
C20_Check2BelowMinimum ==
  Evaluated => (ProtagonistReasonGiven <=> BelowClaimedMinimum)

\* C20 amended: check 2 fails exactly when the children are mentioned at
\* least once and the active-pattern count is below the minimum (1 for 1 to
\* 3 mentions, 2 for more); without any mention check 2 does not fail.
C20_Check2WhenMentioned ==
  Evaluated => (ProtagonistReasonGiven <=> MentionedAndBelowMinimum)

\* More than 3 mentions and one active match: below the minimum of 2.
C20_Witness ==
  /\ Evaluated
  /\ evLocals.totalChildMentions > 3
  /\ evLocals.activeChildMentions = 1
  /\ ProtagonistReasonGiven

\* ---------------------------------------------------------------- C21
\* The story parsed from the last answer of the narrative service.
LastReceived == received[Len(received)]
\* The last answered attempt yielded a well-formed story.
StoryReceived == lastOutcome = "story" /\ Len(received) > 0

\* The texts of a Narrative.
TextsOf(n) ==
  {n.title} \cup { n.sections[k].headline : k \in 1..Len(n.sections) }
            \cup { n.sections[k].body : k \in 1..Len(n.sections) }
\* The Narrative contains the keyword, in any letter case.
Mentions(n, keyword) ==
  \E t \in TextsOf(n) : Includes(toLowerCase(t), toLowerCase(keyword))
\* The Narrative contains none of the companion keywords of the theme.
NoCompanionMentioned(n, theme) ==
  \A k \in 1..Len(getThemeCompanionKeywords(theme)) :
    ~Mentions(n, getThemeCompanionKeywords(theme)[k])

\* C21: when the selected theme has a companion keyword set and the
\* Narrative of an attempt contains none of its keywords, the Verdict is
\* invalid and, if attempts remain, the next narrative-service call is made;
\* when the theme has no keyword set the Verdict has no reason of check 4.
C21_CompanionCheckAndRetry ==
  StoryReceived =>
    /\ (HasCompanionKeywords(body.characters)
          /\ NoCompanionMentioned(LastReceived, body.characters))
         => /\ ~lastEvaluation.valid
            /\ \E a \in 1..Len(lastEvaluation.reasons) :
                 ReasonCheck(lastEvaluation.reasons[a]) = 4
            /\ Len(received) < MAX_RETRIES
                 => /\ postPc = "calling"
                    /\ attempt = Len(received)
                    /\ calls = Len(received) + 1
    /\ ~HasCompanionKeywords(body.characters)
         => \A a \in 1..Len(lastEvaluation.reasons) :
              ReasonCheck(lastEvaluation.reasons[a]) # 4

\* A story for the theme Dragons named no dragon, and the second call is
\* being awaited.
C21_Witness ==
  /\ StoryReceived
  /\ body.characters = <<"Dragons">>
  /\ NoCompanionMentioned(LastReceived, body.characters)
  /\ ~lastEvaluation.valid
  /\ postPc = "calling"
  /\ calls = 2


\* ---------------------------------------------------------------- C22
\* The positions that end a line of s: its line feeds and its end.
LineEnds(s) == { p \in 1..Len(s) : CharAt(s, p) = "\n" } \cup {Len(s) + 1}
NextLineEnd(s, start) ==
  CHOOSE e \in LineEnds(s) : e >= start /\ \A x \in LineEnds(s) : x >= start => e <= x
RECURSIVE LinesFrom(_, _)
\* The lines of s from position start on.
LinesFrom(s, start) ==
  IF start > Len(s) + 1 THEN <<>>
  ELSE <<SubSeq(s, start, NextLineEnd(s, start) - 1)>>
       \o LinesFrom(s, NextLineEnd(s, start) + 1)
Lines(s) == LinesFrom(s, 1)

IsBullet(line) == StartsWith(line, "- ")
\* The items of the lines that are list items.
BulletItems(s) ==
  LET items == SelectSeq(Lines(s), IsBullet)
  IN [k \in 1..Len(items) |-> SubSeq(items[k], 3, Len(items[k]))]

\* What the message of the awaited call holds beyond the original prompt.
AddedToPrompt == SubSeq(prompt, Len(userPrompt(body)) + 1, Len(prompt))

\* The Verdict of the attempt before the awaited one.
PriorVerdict ==
  LoopVerdicts[<<received[attempt], body.children, body.characters, body.language>>]

\* C22: the call of attempt k > 0 is sent the original prompt followed by
\* the reasons of the Verdict of attempt k-1, literally, one per line, and
\* no other reason; the call of attempt 0 is sent the original prompt alone.
C22_RetryCarriesPriorReasons ==
  postPc = "calling" =>
    /\ Len(received) = attempt
    /\ StartsWith(prompt, userPrompt(body))
    /\ IF attempt = 0 THEN prompt = userPrompt(body)
       ELSE /\ BulletItems(AddedToPrompt) = PriorVerdict.reasons
            /\ PriorVerdict.reasons # <<>>

\* The third call is awaited and carries two reasons.
C22_Witness ==
  /\ postPc = "calling"
  /\ attempt = 2
  /\ Len(BulletItems(AddedToPrompt)) = 2


\* ---------------------------------------------------------------- C23
\* The Verdict of the story received in attempt k - 1 (the k-th received).
VerdictOfReceived(k) ==
  LoopVerdicts[<<received[k], body.children, body.characters, body.language>>]

\* C23: a story that evaluates as valid is the last one received: no
\* narrative-service call follows it, and it is the story of the response.
C23_StopsAtFirstValid ==
  \A k \in 1..Len(received) :
    VerdictOfReceived(k).valid
      => /\ k = Len(received)
         /\ postPc \in {"done", "idle"}
         /\ calls = k
         /\ outstanding = 0
         /\ response.status = 200
         /\ response.story = received[k]

\* The second attempt yielded a valid story after an invalid first one.
C23_Witness ==
  /\ Len(received) = 2
  /\ ~VerdictOfReceived(1).valid
  /\ VerdictOfReceived(2).valid
  /\ postPc = "done"
  /\ response.story = received[2]


\* ---------------------------------------------------------------- C24
\* All three attempts yielded well-formed stories that evaluate as invalid.
ThreeInvalidStories ==
  /\ Len(received) = 3
  /\ \A k \in 1..3 : ~VerdictOfReceived(k).valid

\* C24: when all three attempts yield well-formed, invalid stories, the
\* handler answers with the story of the third attempt and not with an error.
C24_LastInvalidReturned ==
  ThreeInvalidStories
    => /\ postPc \in {"done", "idle"}
       /\ calls = 3
       /\ response.status = 200
       /\ response.error = Null
       /\ response.story = received[3]

\* Three different invalid stories were received and the third was returned.
C24_Witness ==
  /\ ThreeInvalidStories
  /\ received[1] # received[3]
  /\ received[2] # received[3]
  /\ received[1] # received[2]
  /\ postPc = "done"
  /\ response.story = received[3]


\* ---------------------------------------------------------------- C25
\* The exact child count as the description words it.
ExactCountPhrase(n) ==
  CASE n = 1 -> "exactly one child"
    [] n = 2 -> "exactly two children together"
    [] n = 3 -> "exactly three children together"

\* C25: every prompt sent to the image-synthesis service for a request with
\* 1, 2 or 3 children holds the exact child count, whatever the visual style
\* and the custom visual style are.
C25_PromptHasExactChildCount ==
  (imagePc = "calling" /\ Len(imageBody.children) \in 1..3)
    => Includes(imagePrompt, ExactCountPhrase(Len(imageBody.children)))


\* ---------------------------------------------------------------- C26
Drawn == photoPc = "drawn"
\* The margins the drawn rectangle leaves on the canvas.
LeftMargin == drawImage.dx
RightMargin == Minus(Whole(canvas.width), Plus(drawImage.dx, drawImage.dWidth))
TopMargin == drawImage.dy
BottomMargin == Minus(Whole(canvas.height), Plus(drawImage.dy, drawImage.dHeight))

\* C26: for every source size and target size the drawn rectangle is
\* centered on both axes (left margin = right margin, top margin = bottom
\* margin) and the rectangle sampled is the full source (0, 0, srcW, srcH).
C26_CenteredFullSource ==
  Drawn =>
    /\ LeftMargin = RightMargin
    /\ TopMargin = BottomMargin
    /\ drawImage.sx = 0 /\ drawImage.sy = 0
    /\ drawImage.sWidth = photo.width /\ drawImage.sHeight = photo.height

\* A 400x300 source was drawn on the 1536x960 canvas.
C26_Witness ==
  /\ Drawn
  /\ photo = [width |-> 400, height |-> 300]
  /\ canvas = [width |-> 1536, height |-> 960]
  /\ LeftMargin = RightMargin

\* ---------------------------------------------------------------- C27
\* C27: the rectangle drawn lies within the canvas: drawX >= 0, drawY >= 0,
\* drawX + width <= targetW and drawY + height <= targetH.
C27_DrawnWithinCanvas ==
  Drawn =>
    /\ LessEq(Whole(0), drawImage.dx)
    /\ LessEq(Whole(0), drawImage.dy)
    /\ LessEq(Plus(drawImage.dx, drawImage.dWidth), Whole(canvas.width))
    /\ LessEq(Plus(drawImage.dy, drawImage.dHeight), Whole(canvas.height))


\* ---------------------------------------------------------------- C28
\* The request has no children field or an empty children list.
NoChildrenGiven ==
  /\ body # BadBody
  /\ ~HasChildren(body) \/ Len(body.children) = 0

\* C28: a request with a missing or empty children list is answered with
\* the validation error (status 400) and no narrative-service call is made
\* for it.
C28_NoChildrenRejected ==
  NoChildrenGiven
    => /\ postPc \in {"done", "idle"}
       /\ calls = 0
       /\ outstanding = 0
       /\ response.status = 400
       /\ response.error = "At least one child is required"
       /\ response.story = NoData

\* A request with an empty children list was rejected.
C28_Witness ==
  /\ postPc = "done"
  /\ HasChildren(body)
  /\ body.children = <<>>
  /\ response.status = 400


\* ---------------------------------------------------------------- C29
\* The text from p to q has as many opening as closing braces.
BracesBalanced(text, p, q) ==
  Cardinality({ o \in Positions(text, "{") : p <= o /\ o <= q })
    = Cardinality({ c \in Positions(text, "}") : p <= c /\ c <= q })
\* The ends of the balanced objects that start at the brace at p.
BalancedEnds(text, p) ==
  { q \in Positions(text, "}") : q > p /\ BracesBalanced(text, p, q) }
HasBalancedObject(text) ==
  \E p \in Positions(text, "{") : BalancedEnds(text, p) # {}
\* The first balanced object of the text: from the first opening brace
\* that is closed to the brace closing it.
FirstBalancedObject(text) ==
  LET p == Least({ o \in Positions(text, "{") : BalancedEnds(text, o) # {} })
  IN SubSeq(text, p, Least(BalancedEnds(text, p)))

\* The last answer had a content that strict parsing rejects.
StrictParseFailed ==
  /\ responseContent \notin {Null, ""}
  /\ JSONparse(responseContent) = SyntaxError

\* C29: when strict parsing of the content fails, the first balanced object
\* of the content is parsed and used as the Narrative whenever the content
\* holds a balanced object, whatever follows it; a parse error is declared
\* only for a content without a balanced object.
C29_FirstBalancedObjectUsed ==
  StrictParseFailed =>
    IF HasBalancedObject(responseContent)
      THEN LET object == JSONparse(FirstBalancedObject(responseContent))
           IN /\ lastOutcome \notin {"noJson", "badJson"}
              /\ (object # SyntaxError /\ HasStructure(object))
                   => /\ lastOutcome = "story"
                      /\ LastReceived = object
      ELSE lastOutcome = "noJson"


\* ---------------------------------------------------------------- C30
\* The file is a JPEG, PNG or WebP image by its MIME type or by the
\* extension of its name.
IsJpegPngOrWebp(f) ==
  \/ toLowerCase(f.type) \in {"image/jpeg", "image/jpg", "image/png", "image/webp"}
  \/ \E ext \in {".jpg", ".jpeg", ".png", ".webp"} : endsWith(toLowerCase(f.name), ext)
Acceptable(f) == f.size <= 10 * 1024 * 1024 /\ IsJpegPngOrWebp(f)

StartedBeforeNewStory(i) == StoryInvoked(i) /\ ~inSession[i]

\* C31: after handleNewStory no continuation started before it mints a
\* token, issues an image call or writes 'storyCoverImage'.
C31_NoActionAfterNewStory ==
  [][ \A i \in Inst :
        StartedBeforeNewStory(i)
        => /\ generationRequestIdRef'[i] <= generationRequestIdRef[i]
           /\ services'[i] = services[i]
           /\ (imgPc[i] \in ImagePending /\ imgPc'[i] = "done")
                => sessionStorage'.storyCoverImage = sessionStorage.storyCoverImage
    ]_vars

\* ---------------------------------------------------------------- C32
\* Every awaited call of the story page returns: the narrative request,
\* the synthesis call, the compositor and the refinement call.
PageFairSpec ==
  /\ Spec
  /\ \A i \in Inst : /\ WF_vars(StoryResponse(i))
                     /\ WF_vars(SynthResponse(i))
                     /\ WF_vars(ComposeDone(i))
                     /\ WF_vars(EnhanceDone(i))

\* The narrative phase of the instance has left pending: ready or error.
NarrativeSettled(i) ==
  /\ ~isGeneratingStory[i]
  /\ (story[i] # NoData \/ error[i] # Null)

\* C32: every lifecycle of the story page that found a stored Answer Set
\* eventually has isGeneratingStory false with a Narrative or an error.
C32_NarrativeLeavesPending ==
  \A i \in Inst : (formData[i] # NoData) ~> NarrativeSettled(i)

\* ---------------------------------------------------------------- C33
\* The image phase of the instance is ready: the image is displayed and
\* locked.
ImageReady(i) ==
  /\ generatedImageUrl[i] # NoData
  /\ imageLockedRef[i]
  /\ ~isGeneratingImage[i]

\* The image phase of the instance is in error: the error is set and the
\* started flag is clear.
ImageError(i) ==
  /\ error[i] # Null
  /\ ~imageGenerationStartedRef[i]
  /\ ~isGeneratingImage[i]

\* handleNewStory has reset the token of the instance since its
\* acquisition captured its requestId.
NewStoryIntervened(i) ==
  /\ ~inSession[i]
  /\ requestId[i] # generationRequestIdRef[i]

\* C33: an image acquisition in flight leads to the image phase ready or
\* error, unless handleNewStory intervenes.
C33_ImageLeavesPending ==
  \A i \in Inst :
    isGeneratingImage[i]
      ~> (ImageReady(i) \/ ImageError(i) \/ NewStoryIntervened(i))

\* One acquisition ended in error and a later one of the session ended
\* ready.
C33_Witness ==
  \E i, j \in Inst :
    /\ imgPc[i] = "failed" /\ ImageError(i)
    /\ imgPc[j] = "done" /\ ImageReady(j)
    /\ inSession[i] /\ inSession[j]

\* ---------------------------------------------------------------- C34
\* C34: the failure of an image request whose requestId is no longer the
\* current token, or that fails when the image is locked, sets no error,
\* leaves isGeneratingImage as it is and does not clear
\* imageGenerationStartedRef.
C34_StaleFailureIsSilent ==
  [][ \A i \in Inst :
        ( /\ imgPc[i] \in ImagePending
          /\ imgPc'[i] = "failed"
          /\ (requestId[i] # generationRequestIdRef[i] \/ imageLockedRef[i]) )
        => /\ error'[i] = error[i]
           /\ isGeneratingImage'[i] = isGeneratingImage[i]
           /\ imageGenerationStartedRef'[i] = imageGenerationStartedRef[i]
    ]_vars

\* A request failed after handleNewStory had reset its token: no error is
\* shown and isGeneratingImage is as the request left it.
C34_Witness ==
  \E i \in Inst :
    /\ imgPc[i] = "failed"
    /\ requestId[i] # generationRequestIdRef[i]
    /\ error[i] = Null
    /\ isGeneratingImage[i]

\* ---------------------------------------------------------------- C35
\* C35: in every state, for every page instance, imageLockedRef true
\* implies imageGenerationStartedRef true.
C35_LockedImpliesStarted ==
  \A i \in Inst : imageLockedRef[i] => imageGenerationStartedRef[i]

\* One instance finalized its own acquisition and another restored the
\* stored image: both are locked with the started flag set.
C35_Witness ==
  \E i, j \in Inst :
    /\ imgPc[i] = "done" /\ imageLockedRef[i] /\ imageGenerationStartedRef[i]
    /\ restored[j] /\ imageLockedRef[j] /\ imageGenerationStartedRef[j]

\* ---------------------------------------------------------------- C36
\* C36: when generateStory ends in its catch block (response not OK, or the
\* call rejected), that call starts no image acquisition: the token stays
\* 0, the started flag stays false and no compositor, synthesis or
\* refinement call is made by the instance.
C36_NoImageAfterNarrativeError ==
  \A i \in Inst :
    storyPc[i] = "failed"
      => /\ generationRequestIdRef[i] = 0
         /\ requestId[i] = 0
         /\ ~imageGenerationStartedRef[i]
         /\ imgPc[i] = "idle"
         /\ services[i] = {}

\* A narrative request failed and the error is shown; another instance of
\* the session got its narrative and started its image.
C36_Witness ==
  \E i, j \in Inst :
    /\ storyPc[i] = "failed" /\ error[i] = "Failed to generate story"
    /\ ~isGeneratingStory[i]
    /\ storyPc[j] = "done" /\ imgPc[j] \in ImagePending

\* ---------------------------------------------------------------- C37
\* The drawn rectangle leaves the canvas on the horizontal / vertical axis.
ExceedsWidth ==
  \/ ~LessEq(Whole(0), drawImage.dx)
  \/ ~LessEq(Plus(drawImage.dx, drawImage.dWidth), Whole(canvas.width))
ExceedsHeight ==
  \/ ~LessEq(Whole(0), drawImage.dy)
  \/ ~LessEq(Plus(drawImage.dy, drawImage.dHeight), Whole(canvas.height))

\* C37: for every source size and target size the rectangle drawn by
\* processUploadedPhoto exceeds the canvas on at most one axis.
C37_ExceedsOnAtMostOneAxis ==
  Drawn => ~(ExceedsWidth /\ ExceedsHeight)

\* ---------------------------------------------------------------- C38
\* The base64 content of a file, as its FileReader delivers it.
ContentOfFile(f) == AfterFirstComma(DataUrl(f))

\* C38: the photo data handleSubmit stores is the data of the file selected
\* last when that file is valid (never the data of an earlier file, never
\* absent), and absent when no valid photo is selected.
C38_SubmitsSelectedPhoto ==
  submitted # NoData =>
    IF uploadedPhoto # NoData
      THEN submitted.photoBase64 = ContentOfFile(uploadedPhoto)
      ELSE submitted.photoBase64 = Null

\* ---------------------------------------------------------------- C39
\* What a tab can hold under 'storyCoverImage' when the page is opened:
\* nothing, the empty string, texts that are not the JSON of an object,
\* objects without an imageUrl, and a persisted image.
CacheEntries ==
  { NoData,
    [text |-> ""], [text |-> "{oops"], [text |-> "null"], [text |-> "42"],
    [isUploadedPhoto |-> FALSE, visualStyle |-> <<"Cartoon">>, timestamp |-> 0],
    [imageUrl |-> NoData, isUploadedPhoto |-> FALSE,
     visualStyle |-> <<"Cartoon">>, timestamp |-> 0],
    [imageUrl |-> Image(0, "imageUrl"), isUploadedPhoto |-> FALSE,
     visualStyle |-> <<"Cartoon">>, timestamp |-> 0] }

\* The story page is opened in a tab whose store holds an Answer Set and
\* any of these entries.
CacheInit ==
  /\ sessionStorage \in [storyFormData : {Answers(TRUE, <<"Cartoon">>, Null)},
                         storyCoverImage : CacheEntries]
  /\ PageFresh
  /\ PostInit
  /\ EvalIdle
  /\ LibIdle

CacheSpec == CacheInit /\ [][Next]_vars

\* JSON.parse of the entry throws.
CannotBeParsed(entry) ==
  "text" \in DOMAIN entry /\ entry.text \in {"{oops"}

\* The entry parses and the value has no imageUrl (a number, null, an
\* object without the field or with a null field).
ParsesWithoutImageUrl(entry) ==
  \/ "text" \in DOMAIN entry /\ entry.text \in {"null", "42"}
  \/ /\ entry # NoData
     /\ "text" \notin DOMAIN entry
     /\ ("imageUrl" \in DOMAIN entry => entry.imageUrl = NoData)

\* After its mount the instance is where a mount without an entry leaves
\* it: generateStory is awaited, nothing is restored, no lock, no started
\* flag, no token.
ProceedsAsWithoutEntry(i) ==
  /\ storyPc[i] = "awaitStory"
  /\ isGeneratingStory[i]
  /\ error[i] = Null
  /\ initializationCompleteRef[i]
  /\ ~restored[i]
  /\ generatedImageUrl[i] = NoData
  /\ ~imageLockedRef[i]
  /\ ~imageGenerationStartedRef[i]
  /\ generationRequestIdRef[i] = 0
  /\ imgPc[i] = "idle"

\* C39: an initialization that finds the Answer Set and a 'storyCoverImage'
\* entry that cannot be parsed removes the entry and goes on as without an
\* entry; one that finds an entry that parses without an imageUrl goes on
\* as without an entry and sets no lock; and every image acquisition that
\* follows starts under the guard of generateStory.
C39_UnusableEntryIsAbsent ==
  [][ /\ \A i \in Inst :
           (Mounting /\ i = mounts + 1 /\ sessionStorage'.storyFormData # NoData)
             => /\ CannotBeParsed(sessionStorage.storyCoverImage)
                     => /\ sessionStorage'.storyCoverImage = NoData
                        /\ ProceedsAsWithoutEntry(i)'
                /\ ParsesWithoutImageUrl(sessionStorage.storyCoverImage)
                     => ProceedsAsWithoutEntry(i)'
      /\ \A i \in Inst :
           (imgPc[i] = "idle" /\ imgPc'[i] # "idle")
             => /\ storyPc[i] = "awaitStory" /\ storyPc'[i] = "done"
                /\ ImageStartGuard(i, formData[i])
    ]_vars

\* The store holds an object without an imageUrl; an instance that mounted
\* over it restored nothing, got its narrative and is acquiring its image,
\* unlocked.
C39_Witness ==
  \E i \in Inst :
    /\ sessionStorage.storyCoverImage =
         [isUploadedPhoto |-> FALSE, visualStyle |-> <<"Cartoon">>, timestamp |-> 0]
    /\ ~restored[i]
    /\ storyPc[i] = "done"
    /\ imgPc[i] \in ImagePending
    /\ ~imageLockedRef[i]

====
